---- MODULE Spec2Model ----
(***************************************************************************)
(* Model of the installer wizard's network discovery engine               *)
(* (installer-wizard/src-tauri/src/network.rs): scan_network and the      *)
(* per-address units it spawns under a semaphore.                         *)
(***************************************************************************)
EXTENDS Integers, Sequences, FiniteSets, TLC

(***************************************************************************)
(* Bounds of the model.                                                    *)
(***************************************************************************)
\* Capacity of the admission gate (32 in the source, scaled down).
MAX_CONCURRENT_SCANS == 2
\* Number of candidate addresses enumerated per /24 range (256 in the source).
RangeLen == 3
\* Largest number of addresses of an interface given to get_network_range.
MaxAddrs == 3
\* Largest number of fields of a line of arp output.
MaxFields == 4
\* Number of commands of the desktop app that run concurrently.
MaxCommands == 3
\* Number of interfaces whose ranges recorded the same addresses.
MergedRanges == 2
\* Number of components of the mount point of test_nfs_connection.
MountDepth == 3

(***************************************************************************)
(* Addresses and their string form.                                        *)
(***************************************************************************)
\* Option<T>: None is the empty sequence, Some(x) the one-element sequence.
None == <<>>
Some(x) == <<x>>

\* An IpAddr: an IPv4 address with its four octets, or an IPv6 address.
V4(a, b, c, d) == [v4 |-> TRUE, octets |-> <<a, b, c, d>>]
V6 == [v4 |-> FALSE, octets |-> <<0, 0, 0, 0>>]

\* Character codes of '.', '0'.
Dot == 46
Zero == 48

\* Decimal rendering of a number, without leading zeros.
RECURSIVE Digits(_)
Digits(n) == IF n < 10 THEN <<Zero + n>>
             ELSE Digits(n \div 10) \o <<Zero + (n % 10)>>

\* Ipv4Addr::to_string (ip.to_string()): the dotted-quad form, as a sequence of character codes.
to_string(ip) ==
    Digits(ip[1]) \o <<Dot>> \o Digits(ip[2]) \o <<Dot>> \o
    Digits(ip[3]) \o <<Dot>> \o Digits(ip[4])

\* String::cmp: byte-wise lexicographic order (strictly less).
RECURSIVE StrLess(_, _)
StrLess(s, t) ==
    IF t = <<>> THEN FALSE
    ELSE IF s = <<>> THEN TRUE
    ELSE IF Head(s) # Head(t) THEN Head(s) < Head(t)
    ELSE StrLess(Tail(s), Tail(t))

\* The comparison a numeric sort of the addresses would use.
NumLess(s, t) ==
    IF Len(s) # Len(t) THEN Len(s) < Len(t) ELSE StrLess(s, t)

IpLessNumeric(a, b) == NumLess(a.ip, b.ip)

\* The comparison of hosts.sort_by(|a, b| a.ip.cmp(&b.ip)).
IpLess(a, b) == StrLess(a.ip, b.ip)

RECURSIVE InsertBeforeEqual(_, _)
InsertBeforeEqual(sorted, x) ==
    IF sorted = <<>> THEN <<x>>
    ELSE IF ~StrLess(Head(sorted).ip, x.ip) THEN <<x>> \o sorted
    ELSE <<Head(sorted)>> \o InsertBeforeEqual(Tail(sorted), x)

\* Stable insertion of a record behind every record that is not greater.
RECURSIVE Insert(_, _)
Insert(sorted, x) ==
    IF sorted = <<>> THEN <<x>>
    ELSE IF IpLess(x, Head(sorted)) THEN <<x>> \o sorted
    ELSE <<Head(sorted)>> \o Insert(Tail(sorted), x)

SortIdentity(hs) == hs

\* Vec::sort_by: a stable sort.
RECURSIVE SortByIp(_)
SortByIp(hs) ==
    IF hs = <<>> THEN <<>>
    ELSE Insert(SortByIp(SubSeq(hs, 1, Len(hs) - 1)), hs[Len(hs)])

DedupIdentity(hs) == hs

\* Vec::dedup_by(|a, b| a.ip == b.ip): of each run of consecutive records with
\* equal ip the first one is kept.
RECURSIVE DedupByIp(_)
DedupByIp(hs) ==
    IF Len(hs) <= 1 THEN hs
    ELSE LET front == DedupByIp(SubSeq(hs, 1, Len(hs) - 1))
             last == hs[Len(hs)]
         IN IF front[Len(front)].ip = last.ip THEN front
            ELSE Append(front, last)

(***************************************************************************)
(* Interfaces and range derivation.                                        *)
(***************************************************************************)
\* Interfaces the enumeration may report.
IfLo == [name |-> "lo", addr |-> <<>>]
IfEth == [name |-> "eth0", addr |-> <<V6, V4(192, 168, 1, 5)>>]
IfWlan == [name |-> "wlan0", addr |-> <<V4(192, 168, 1, 77), V4(10, 0, 0, 1)>>]
IfTun == [name |-> "tun0", addr |-> <<V6>>]
IfVpn == [name |-> "vpn0", addr |-> <<V4(10, 0, 0, 1)>>]

\* The interface lists NetworkInterface::show may return: none, one without
\* addresses, one with one IPv4 address, an IPv6-only one before a dual-stack
\* one, two whose /24 ranges are the same, two whose ranges are disjoint.
InterfaceLists == {<<>>, <<IfLo>>, <<IfVpn>>, <<IfTun, IfEth>>, <<IfEth, IfWlan>>,
                   <<IfWlan, IfLo, IfVpn>>}

\* The prefix length of Ipv4Network::new(ipv4, 24) and the number of addresses
\* of such a network.
Prefix == 24
Ipv4NetworkSize == 2 ^ (32 - Prefix)

\* Ipv4Network::new(addr, prefix): an error for a prefix longer than the 32
\* bits of an address, the network of the address otherwise.
Ipv4NetworkNew(addr, prefix) ==
    IF prefix > 32 THEN [ok |-> FALSE, network |-> <<>>]
    ELSE [ok |-> TRUE, network |-> addr]

\* get_network_range: the /24 network of the first IPv4 address for which
\* Ipv4Network::new(ipv4, 24) is Ok, if any; an address for which it is an
\* error is passed over like an IPv6 address.
RECURSIVE FirstV4(_)
FirstV4(addrs) ==
    IF addrs = <<>> THEN None
    ELSE IF Head(addrs).v4 /\ Ipv4NetworkNew(Head(addrs).octets, Prefix).ok
         THEN Some(Ipv4NetworkNew(Head(addrs).octets, Prefix).network)
    ELSE FirstV4(Tail(addrs))
HeadAddressRange(interface) ==
    IF interface.addr # <<>> /\ Head(interface.addr).v4
    THEN Some(Head(interface.addr).octets) ELSE None
get_network_range(interface) == FirstV4(interface.addr)

Ipv4NetworkNthFromAddress(network, n) ==
    <<network[1], network[2], network[3], network[4] + n>>
\* Address number n, from 0, of network.iter(): the iterator starts at the
\* network address, the given address with its host bits cleared (they lie in
\* the last octet), and ends at the broadcast address.
Ipv4NetworkNth(network, n) ==
    <<network[1], network[2], network[3],
      (network[4] - (network[4] % Ipv4NetworkSize)) + n>>
\* network.iter(), in full.
Ipv4NetworkIter(network) ==
    [n \in 1..Ipv4NetworkSize |-> Ipv4NetworkNth(network, n - 1)]

\* Last octets of the candidate addresses network.iter() yields, in ascending
\* order; the model of the scan enumerates the first RangeLen of this sample
\* of 0..255.
SampleOctets == <<2, 10, 33, 200, 255>>
NetworkIter(network) ==
    [k \in 1..RangeLen |-> Ipv4NetworkNth(network, SampleOctets[k])]
(***************************************************************************)
(* The network environment of one probed address.                          *)
(***************************************************************************)
\* Timeouts of the connect attempts, in milliseconds.
ALIVE_TIMEOUT_MS == 100
PORT_TIMEOUT_MS == 200
\* A connect attempt that is never answered.
Never == 100000

alive_ports == <<22, 80, 135, 139, 443, 445>>
common_ports == <<21, 22, 23, 25, 53, 80, 110, 135, 139, 143, 443, 445,
                  993, 995, 3389, 5985, 5986>>
common_shares == <<"C$", "ADMIN$", "IPC$", "shared", "public", "media", "downloads">>

\* Kinds of hosts behind a candidate address.
\*   silent   no host: every SYN is lost, ping gets no reply
\*   icmp     drops every SYN, may answer ping
\*   sshdrop  accepts on 22, drops the rest
\*   sshopen  accepts on 22, refuses the rest
\*   nbt      accepts on 139 after 150 ms, drops the rest
\*   noroute  every connect fails at once with a host/network unreachable error
\*   closed   a host without services that refuses every connect at once
\*   smb      accepts on 139 and 445, drops the rest
HostKinds == {"silent", "icmp", "sshdrop", "sshopen", "nbt", "noroute", "closed", "smb"}

\* What TcpStream::connect((ip, port)) does for a host of the kind: how the
\* attempt ends and after how many milliseconds.
Connect(kind, port) ==
    CASE kind \in {"silent", "icmp"} -> [res |-> "timeout", ms |-> Never]
      [] kind = "sshdrop" -> IF port = 22 THEN [res |-> "established", ms |-> 1]
                             ELSE [res |-> "timeout", ms |-> Never]
      [] kind = "sshopen" -> IF port = 22 THEN [res |-> "established", ms |-> 1]
                             ELSE [res |-> "refused", ms |-> 1]
      [] kind = "nbt" -> IF port = 139 THEN [res |-> "established", ms |-> 150]
                         ELSE [res |-> "timeout", ms |-> Never]
      [] kind = "noroute" -> [res |-> "unreachable", ms |-> 1]
      [] kind = "closed" -> [res |-> "refused", ms |-> 1]
      [] kind = "smb" -> IF port \in {139, 445} THEN [res |-> "established", ms |-> 1]
                         ELSE [res |-> "timeout", ms |-> Never]

\* timeout(d, connect).await.is_ok(): the attempt ended before the deadline,
\* whether with a stream or with an error.
TimeoutIsOk(attempt, d) == attempt.ms < d

\* The fast strategy of is_host_alive: the ports in order, true at the first
\* attempt for which timeout(..).await.is_ok().
RECURSIVE FastStrategy(_, _)
FastStrategy(kind, ports) ==
    IF ports = <<>> THEN FALSE
    ELSE IF TimeoutIsOk(Connect(kind, Head(ports)), ALIVE_TIMEOUT_MS) THEN TRUE
    ELSE FastStrategy(kind, Tail(ports))

\* How the ping subprocess may end: with exit status 0, with another status,
\* or it cannot be started.  Where there is no host, no reply comes.
PingOutcomes(kind) ==
    IF kind = "silent" THEN {"failure", "nostart"}
    ELSE {"success", "failure", "nostart"}
PingVerdictStarted(outcome) == outcome # "nostart"
\* The verdict of the fallback: output.status.success(), false when the
\* process could not be started.
PingVerdict(outcome) == outcome = "success"

\* What the reverse lookup may return: an error, no name, or names.
LookupFails == [ok |-> FALSE, names |-> <<>>]
LookupNames == [ok |-> TRUE, names |-> <<"nas.lan", "nas">>]
resolve_hostname(lookup) ==
    IF lookup.ok /\ lookup.names # <<>> THEN Some(Head(lookup.names)) ELSE None

\* What `arp -n <ip>` may do.  A line of its output is the list of its
\* whitespace-separated fields, with whether the line contains the address.
Field(text, len, colon) == [text |-> text, len |-> len, colon |-> colon]
ArpLine(has_ip, parts) == [has_ip |-> has_ip, parts |-> parts]
ArpRun(started, success, utf8, lines) ==
    [started |-> started, success |-> success, utf8 |-> utf8, lines |-> lines]
ArpHeader == ArpLine(FALSE, <<Field("Address", 7, FALSE), Field("HWtype", 6, FALSE),
                              Field("HWaddress", 9, FALSE)>>)
ArpEntry == ArpLine(TRUE, <<Field("ip", 11, FALSE), Field("ether", 5, FALSE),
                            Field("aa:bb:cc:dd:ee:ff", 17, TRUE),
                            Field("C", 1, FALSE), Field("eth0", 4, FALSE)>>)
ArpNoEntry == ArpLine(TRUE, <<Field("ip", 11, FALSE), Field("(incomplete)", 12, FALSE),
                              Field("eth0", 4, FALSE)>>)
ArpNoStart == ArpRun(FALSE, FALSE, TRUE, <<>>)
ArpExitFailure == ArpRun(TRUE, FALSE, TRUE, <<>>)
ArpNotUtf8 == ArpRun(TRUE, TRUE, FALSE, <<>>)
ArpIncomplete == ArpRun(TRUE, TRUE, TRUE, <<ArpHeader, ArpNoEntry>>)
ArpFound == ArpRun(TRUE, TRUE, TRUE, <<ArpHeader, ArpEntry>>)

(***************************************************************************)
(* The text the arp utility prints.                                        *)
(***************************************************************************)
\* Character codes of ' ', '\n', ':', '(', ')', '?'.
Space == 32
Newline == 10
Colon == 58
ParenOpen == 40
ParenClose == 41
Question == 63

\* str::contains: the needle occurs somewhere in the text.
StrContains(text, needle) ==
    \E i \in 1..(Len(text) - Len(needle) + 1) :
        SubSeq(text, i, i + Len(needle) - 1) = needle

\* The pieces of a text between occurrences of a separator.
RECURSIVE SplitAt(_, _)
SplitAt(text, sep) ==
    IF \A i \in DOMAIN text : text[i] # sep THEN <<text>>
    ELSE LET i == CHOOSE i \in DOMAIN text :
                      text[i] = sep /\ \A j \in 1..(i - 1) : text[j] # sep
         IN <<SubSeq(text, 1, i - 1)>> \o SplitAt(SubSeq(text, i + 1, Len(text)), sep)

\* str::lines: the text split at newlines, without a last empty line.
StrLines(text) ==
    LET pieces == SplitAt(text, Newline)
    IN IF pieces[Len(pieces)] = <<>> THEN SubSeq(pieces, 1, Len(pieces) - 1)
       ELSE pieces

\* str::split_whitespace: the non-empty pieces between whitespace.
SplitWhitespace(line) == SelectSeq(SplitAt(line, Space), LAMBDA piece : piece # <<>>)

\* A line of output as get_mac_address sees it: whether it contains the
\* address, and its fields with their length and whether they hold a ':'.
ArpLineOf(line, ip) ==
    LET parts == SplitWhitespace(line)
    IN ArpLine(StrContains(line, to_string(ip)),
               [k \in DOMAIN parts |->
                   Field(parts[k], Len(parts[k]), StrContains(parts[k], <<Colon>>))])
ArpLinesOf(stdout, ip) ==
    LET lines == StrLines(stdout)
    IN [k \in DOMAIN lines |-> ArpLineOf(lines[k], ip)]

\* The parse loop of get_mac_address over the output lines.
RECURSIVE ParseArp(_)
ParseArp(lines) ==
    IF lines = <<>> THEN None
    ELSE LET parts == Head(lines).parts
         IN IF /\ Head(lines).has_ip
               /\ Len(parts) >= 3
               /\ parts[3].colon
               /\ parts[3].len = 17
            THEN Some(parts[3].text)
            ELSE ParseArp(Tail(lines))
get_mac_address(run) ==
    IF run.started /\ run.success /\ run.utf8 THEN ParseArp(run.lines) ELSE None

\* The ports scan_ports pushes: the join loop awaits the tasks in the order of
\* common_ports and keeps the port of every task that returned Some(port).
RECURSIVE scan_ports(_, _)
scan_ports(kind, ports) ==
    IF ports = <<>> THEN <<>>
    ELSE (IF TimeoutIsOk(Connect(kind, Head(ports)), PORT_TIMEOUT_MS)
          THEN <<Head(ports)>> ELSE <<>>) \o scan_ports(kind, Tail(ports))

Contains(seq, x) == \E k \in 1..Len(seq) : seq[k] = x

\* scan_smb_shares_for_host: the static list, whatever the address.
scan_smb_shares_for_host(ip) == common_shares

SmbSharesOnly445(ip, open_ports) ==
    IF Contains(open_ports, 445) THEN scan_smb_shares_for_host(ip) ELSE <<>>
\* The smb_shares field computed by scan_host.
SmbShares(ip, open_ports) ==
    IF Contains(open_ports, 445) \/ Contains(open_ports, 139)
    THEN scan_smb_shares_for_host(ip) ELSE <<>>

\* The NetworkHost scan_host builds.
NetworkHost(ip, hostname, mac_address, open_ports) ==
    [ip |-> to_string(ip), hostname |-> hostname, mac_address |-> mac_address,
     vendor |-> None, open_ports |-> open_ports,
     smb_shares |-> SmbShares(ip, open_ports)]
(***************************************************************************)
(* State.                                                                  *)
(***************************************************************************)
VARIABLES
    pc,          \* where scan_network is: "enumerate", "loop", "range", "returned"
    interfaces,  \* the list NetworkInterface::show returned
    idx,         \* position of the `for interface in interfaces` loop
    hosts,       \* scan_network's hosts vector
    tasks,       \* scan_network_range: the spawned per-address tasks
    joined,      \* scan_network_range: number of tasks the join loop has awaited
    range_hosts, \* scan_network_range's hosts vector
    permits,     \* available permits of the range's semaphore
    result,      \* what scan_network returned
    env,         \* the network around the machine during this scan
    alive,       \* history: addresses for which is_host_alive returned true
    dead,        \* history: addresses for which is_host_alive returned false
    shown        \* history: how NetworkInterface::show ended

\* The state of the stepwise developments of the parts of the scan, which
\* stand still while scan_network runs.
VARIABLES
    liveness,    \* one call of is_host_alive, attempt by attempt
    derivation,  \* one interface: its range derived, its tasks spawned
    unit,        \* one spawned task, with the port probes of scan_ports
    mac_lookup,  \* one call of get_mac_address on the text arp printed
    desktop,     \* the desktop app: its AppConfig, its mutex, its commands
    local,       \* test_local_connection: the filesystem, the check reached
    smb_api,     \* smb::scan_shares: the request, the response, the result
    merge,       \* the end of scan_network: extend, sort, dedup
    ftp,         \* test_ftp_connection: the stream, the commands sent
    webdav,      \* test_webdav_connection: the request, the response
    nfs,         \* test_nfs_connection: the filesystem, the step reached
    modules,     \* the module functions and the commands: the runs of both
    http         \* make_http_request: the method, the request, the result

aux == <<liveness, derivation, unit, mac_lookup, desktop, local, smb_api, merge, ftp, webdav, nfs, modules, http>>
scan == <<pc, interfaces, idx, hosts, tasks, joined, range_hosts, permits,
          result, env, alive, dead, shown>>
vars == <<scan, aux>>

\* No stepwise development is running.
LivenessIdle == [pc |-> "idle"]
DerivationIdle == [pc |-> "idle"]
UnitIdle == [pc |-> "idle"]
MacLookupIdle == [pc |-> "idle"]
DesktopIdle == [pc |-> "idle"]
LocalIdle == [pc |-> "idle"]
SmbApiIdle == [pc |-> "idle"]
MergeIdle == [pc |-> "idle"]
FtpIdle == [pc |-> "idle"]
WebdavIdle == [pc |-> "idle"]
NfsIdle == [pc |-> "idle"]
ModulesIdle == [pc |-> "idle"]
HttpIdle == [pc |-> "idle"]
AuxIdle ==
    /\ liveness = LivenessIdle
    /\ derivation = DerivationIdle
    /\ unit = UnitIdle
    /\ mac_lookup = MacLookupIdle
    /\ desktop = DesktopIdle
    /\ local = LocalIdle
    /\ smb_api = SmbApiIdle
    /\ merge = MergeIdle
    /\ ftp = FtpIdle
    /\ webdav = WebdavIdle
    /\ nfs = NfsIdle
    /\ modules = ModulesIdle
    /\ http = HttpIdle

\* The networks a scan may run in: the kind of the hosts that populate it (an
\* address has such a host or none), what the resolver answers and what the
\* arp utility does.
Env(kind, lookup, arp) == [kind |-> kind, lookup |-> lookup, arp |-> arp]
Envs == {Env("sshdrop", LookupNames, ArpFound),
         Env("sshopen", LookupFails, ArpNotUtf8),
         Env("nbt", LookupNames, ArpNoStart),
         Env("noroute", LookupFails, ArpExitFailure),
         Env("icmp", LookupNames, ArpIncomplete)}

\* Result<Vec<NetworkHost>>.
Ok(v) == [ok |-> TRUE, hosts |-> v]
Err == [ok |-> FALSE, hosts |-> <<>>]

\* A spawned task: its address, its position, the host behind the address,
\* the strategy of is_host_alive that returned true, the locals of scan_host
\* and, once finished, its output.
NewTask(ip) ==
    [ip |-> ip, pc |-> "waiting", kind |-> "unknown", via |-> "none",
     hostname |-> None,
     mac_address |-> None, out |-> None]

\* Positions at which a task holds a permit.
HoldingPcs == {"probe", "ping", "resolve", "arp", "join"}
Holding == {u \in DOMAIN tasks : tasks[u].pc \in HoldingPcs}
Waiting == {u \in DOMAIN tasks : tasks[u].pc = "waiting"}

Init ==
    /\ pc = "enumerate"
    /\ interfaces = <<>>
    /\ idx = 1
    /\ hosts = <<>>
    /\ tasks = <<>>
    /\ joined = 0
    /\ range_hosts = <<>>
    /\ permits = MAX_CONCURRENT_SCANS
    /\ result = Err
    /\ env \in Envs
    /\ alive = {}
    /\ dead = {}
    /\ shown = "pending"
    /\ AuxIdle

(***************************************************************************)
(* scan_network.                                                           *)
(***************************************************************************)
\* NetworkInterface::show()? succeeds with a list of interfaces.
Enumerate ==
    /\ pc = "enumerate"
    /\ \E list \in InterfaceLists : interfaces' = list
    /\ shown' = "ok"
    /\ pc' = "loop"
    /\ UNCHANGED <<idx, hosts, tasks, joined, range_hosts, permits, result, env, alive, dead, aux>>

\* NetworkInterface::show()? fails: scan_network returns the error.
EnumerateFails ==
    /\ pc = "enumerate"
    /\ shown' = "error"
    /\ pc' = "returned"
    /\ result' = Err
    /\ UNCHANGED <<interfaces, idx, hosts, tasks, joined, range_hosts, permits, env, alive, dead, aux>>

\* An interface without addresses or without an IPv4 address is skipped.
SkipInterface ==
    /\ pc = "loop"
    /\ idx <= Len(interfaces)
    /\ \/ interfaces[idx].addr = <<>>
       \/ get_network_range(interfaces[idx]) = None
    /\ idx' = idx + 1
    /\ UNCHANGED <<pc, interfaces, hosts, tasks, joined, range_hosts, permits,
                   result, env, alive, shown, dead, aux>>

SpawnRangeNoAwait ==
    /\ pc \in {"loop", "range"}
    /\ LET i == IF pc = "range" THEN idx + 1 ELSE idx
       IN /\ i <= Len(interfaces)
          /\ interfaces[i].addr # <<>>
          /\ get_network_range(interfaces[i]) # None
          /\ tasks' = (IF pc = "range" THEN tasks ELSE <<>>)
                         \o [k \in 1..RangeLen |->
                               NewTask(NetworkIter(get_network_range(interfaces[i])[1])[k])]
          /\ idx' = i
    /\ permits' = MAX_CONCURRENT_SCANS
    /\ range_hosts' = <<>>
    /\ joined' = 0
    /\ pc' = "range"
    /\ UNCHANGED <<interfaces, hosts, result, env, alive, shown, dead, aux>>

\* scan_network_range is entered: a fresh semaphore, one task spawned per
\* address of the range.
SpawnRange ==
    /\ pc = "loop"
    /\ idx <= Len(interfaces)
    /\ interfaces[idx].addr # <<>>
    /\ get_network_range(interfaces[idx]) # None
    /\ LET range == NetworkIter(get_network_range(interfaces[idx])[1])
       IN tasks' = [k \in DOMAIN range |-> NewTask(range[k])]
    /\ permits' = MAX_CONCURRENT_SCANS
    /\ range_hosts' = <<>>
    /\ joined' = 0
    /\ pc' = "range"
    /\ UNCHANGED <<interfaces, idx, hosts, result, env, alive, shown, dead, aux>>

AcquireUngated(u) ==
    /\ pc = "range"
    /\ tasks[u].pc = "waiting"
    /\ tasks' = [tasks EXCEPT ![u].pc = "probe"]
    /\ UNCHANGED <<pc, interfaces, idx, hosts, joined, range_hosts, permits,
                   result, env, alive, shown, dead, aux>>

\* permit.acquire().await: the task takes a permit when one is available.
Acquire(u) ==
    /\ pc = "range"
    /\ tasks[u].pc = "waiting"
    /\ permits > 0
    /\ permits' = permits - 1
    /\ tasks' = [tasks EXCEPT ![u].pc = "probe"]
    /\ UNCHANGED <<pc, interfaces, idx, hosts, joined, range_hosts, result, env, alive, shown, dead, aux>>

\* is_host_alive, fast strategy: the six connect attempts against the host
\* that is behind the address.
FastProbe(u) ==
    /\ pc = "range"
    /\ tasks[u].pc = "probe"
    /\ \E kind \in {"silent", env.kind} :
         IF FastStrategy(kind, alive_ports)
         THEN /\ tasks' = [tasks EXCEPT ![u].pc = "resolve", ![u].kind = kind,
                                         ![u].via = "fast"]
              /\ alive' = alive \cup {tasks[u].ip}
         ELSE /\ tasks' = [tasks EXCEPT ![u].pc = "ping", ![u].kind = kind]
              /\ alive' = alive
    /\ dead' = dead
    /\ UNCHANGED <<pc, interfaces, idx, hosts, joined, range_hosts, permits, result, env, shown, aux>>

PingKeepsPermit(u) ==
    /\ pc = "range"
    /\ tasks[u].pc = "ping"
    /\ \E outcome \in PingOutcomes(tasks[u].kind) :
         IF PingVerdict(outcome)
         THEN /\ tasks' = [tasks EXCEPT ![u].pc = "resolve", ![u].via = "ping"]
              /\ alive' = alive \cup {tasks[u].ip}
              /\ dead' = dead
         ELSE /\ tasks' = [tasks EXCEPT ![u].pc = "done"]
              /\ alive' = alive
              /\ dead' = dead \cup {tasks[u].ip}
    /\ permits' = permits
    /\ UNCHANGED <<pc, interfaces, idx, hosts, joined, range_hosts, result, env, shown, aux>>

\* is_host_alive, fallback: the ping subprocess ends.  A false verdict ends
\* the task with None and drops its permit.
Ping(u) ==
    /\ pc = "range"
    /\ tasks[u].pc = "ping"
    /\ \E outcome \in PingOutcomes(tasks[u].kind) :
         IF PingVerdict(outcome)
         THEN /\ tasks' = [tasks EXCEPT ![u].pc = "resolve", ![u].via = "ping"]
              /\ alive' = alive \cup {tasks[u].ip}
              /\ dead' = dead
              /\ permits' = permits
         ELSE /\ tasks' = [tasks EXCEPT ![u].pc = "done"]
              /\ alive' = alive
              /\ dead' = dead \cup {tasks[u].ip}
              /\ permits' = permits + 1
    /\ UNCHANGED <<pc, interfaces, idx, hosts, joined, range_hosts, result, env, shown, aux>>

\* scan_host: resolve_hostname(ip).await.
ResolveHostname(u) ==
    /\ pc = "range"
    /\ tasks[u].pc = "resolve"
    /\ tasks' = [tasks EXCEPT ![u].pc = "arp",
                              ![u].hostname = resolve_hostname(env.lookup)]
    /\ UNCHANGED <<pc, interfaces, idx, hosts, joined, range_hosts, permits,
                   result, env, alive, shown, dead, aux>>

\* scan_host: get_mac_address(ip).await returns when the arp subprocess has
\* ended; scan_ports then spawns one probe task per port of common_ports.
GetMacAddress(u) ==
    /\ pc = "range"
    /\ tasks[u].pc = "arp"
    /\ tasks' = [tasks EXCEPT ![u].pc = "join",
                              ![u].mac_address = get_mac_address(env.arp)]
    /\ UNCHANGED <<pc, interfaces, idx, hosts, joined, range_hosts, permits,
                   result, env, alive, shown, dead, aux>>

ScanHostFailsWithoutMac(u) ==
    /\ pc = "range"
    /\ tasks[u].pc = "join"
    /\ LET t == tasks[u]
           host == NetworkHost(t.ip, t.hostname, t.mac_address,
                               scan_ports(t.kind, common_ports))
       IN tasks' = [tasks EXCEPT ![u].pc = "done",
                                 ![u].out = IF t.mac_address = None THEN None
                                            ELSE Some(host)]
    /\ permits' = permits + 1
    /\ UNCHANGED <<pc, interfaces, idx, hosts, joined, range_hosts, result, env, alive, shown, dead, aux>>

ScanHostKeepsPermit(u) ==
    /\ pc = "range"
    /\ tasks[u].pc = "join"
    /\ LET t == tasks[u]
           host == NetworkHost(t.ip, t.hostname, t.mac_address,
                               scan_ports(t.kind, common_ports))
       IN tasks' = [tasks EXCEPT ![u].pc = "done", ![u].out = Some(host)]
    /\ UNCHANGED <<pc, interfaces, idx, hosts, joined, range_hosts, permits, result,
                   env, alive, shown, dead, aux>>

\* scan_ports has awaited all its probes (each ends when its connect completes
\* or its 200 ms timeout fires) and returns; scan_host builds the record, the
\* task ends with Some(Ok(host)) and drops its permit.
ScanHostReturns(u) ==
    /\ pc = "range"
    /\ tasks[u].pc = "join"
    /\ LET t == tasks[u]
           host == NetworkHost(t.ip, t.hostname, t.mac_address,
                               scan_ports(t.kind, common_ports))
       IN tasks' = [tasks EXCEPT ![u].pc = "done", ![u].out = Some(host)]
    /\ permits' = permits + 1
    /\ UNCHANGED <<pc, interfaces, idx, hosts, joined, range_hosts, result, env, alive, shown, dead, aux>>

JoinTaskNoWait ==
    /\ pc = "range"
    /\ joined < Len(tasks)
    /\ range_hosts' = range_hosts \o tasks[joined + 1].out
    /\ joined' = joined + 1
    /\ UNCHANGED <<pc, interfaces, idx, hosts, tasks, permits, result, env, alive,
                   shown, dead, aux>>

\* The join loop of scan_network_range awaits the next task, in spawn order,
\* and pushes its host if it produced one.
JoinTask ==
    /\ pc = "range"
    /\ joined < Len(tasks)
    /\ tasks[joined + 1].pc = "done"
    /\ range_hosts' = range_hosts \o tasks[joined + 1].out
    /\ joined' = joined + 1
    /\ UNCHANGED <<pc, interfaces, idx, hosts, tasks, permits, result, env, alive, shown, dead, aux>>

RangeReturnsOverwrite ==
    /\ pc = "range"
    /\ joined = Len(tasks)
    /\ hosts' = range_hosts
    /\ idx' = idx + 1
    /\ pc' = "loop"
    /\ UNCHANGED <<interfaces, tasks, joined, range_hosts, permits, result, env,
                   alive, shown, dead, aux>>

\* scan_network_range returns Ok(hosts); scan_network extends its vector and
\* goes on with the next interface.
RangeReturns ==
    /\ pc = "range"
    /\ joined = Len(tasks)
    /\ hosts' = hosts \o range_hosts
    /\ idx' = idx + 1
    /\ pc' = "loop"
    /\ UNCHANGED <<interfaces, tasks, joined, range_hosts, permits, result, env,
                   alive, shown, dead, aux>>

FinishErrOnEmpty ==
    /\ pc = "loop"
    /\ idx > Len(interfaces)
    /\ result' = IF hosts = <<>> THEN Err ELSE Ok(DedupByIp(SortByIp(hosts)))
    /\ pc' = "returned"
    /\ UNCHANGED <<interfaces, idx, hosts, tasks, joined, range_hosts, permits, env,
                   alive, shown, dead, aux>>

\* After the last interface: sort, dedup, return Ok(hosts).
Finish ==
    /\ pc = "loop"
    /\ idx > Len(interfaces)
    /\ result' = Ok(DedupByIp(SortByIp(hosts)))
    /\ pc' = "returned"
    /\ UNCHANGED <<interfaces, idx, hosts, tasks, joined, range_hosts, permits, env, alive, shown, dead, aux>>

Next ==
    \/ Enumerate
    \/ EnumerateFails
    \/ SkipInterface
    \/ SpawnRange
    \/ \E u \in DOMAIN tasks : Acquire(u)
    \/ \E u \in DOMAIN tasks : FastProbe(u)
    \/ \E u \in DOMAIN tasks : Ping(u)
    \/ \E u \in DOMAIN tasks : ResolveHostname(u)
    \/ \E u \in DOMAIN tasks : GetMacAddress(u)
    \/ \E u \in DOMAIN tasks : ScanHostReturns(u)
    \/ JoinTask
    \/ RangeReturns
    \/ Finish

Spec == Init /\ [][Next]_vars

\* Every step but the end of the arp subprocess happens within a bounded time:
\* the connects are wrapped in timeouts, ping is run with -c 1 -W 1000, the
\* resolver has its own timeout and the remaining steps do not wait.  The arp
\* subprocess is waited for with Command::output(), without a deadline.
Bounded ==
    \/ Enumerate
    \/ EnumerateFails
    \/ SkipInterface
    \/ SpawnRange
    \/ \E u \in DOMAIN tasks : Acquire(u)
    \/ \E u \in DOMAIN tasks : FastProbe(u)
    \/ \E u \in DOMAIN tasks : Ping(u)
    \/ \E u \in DOMAIN tasks : ResolveHostname(u)
    \/ \E u \in DOMAIN tasks : ScanHostReturns(u)
    \/ JoinTask
    \/ RangeReturns
    \/ Finish

LiveSpec == Init /\ [][Next]_vars /\ WF_vars(Bounded)

\* The steps of the unit that holds a permit: the body of the spawned task
\* from is_host_alive to its end.
UnitStep(u) ==
    \/ FastProbe(u)
    \/ Ping(u)
    \/ ResolveHostname(u)
    \/ GetMacAddress(u)
    \/ ScanHostReturns(u)

\* The scan under the assumption that every unit that holds a permit finishes:
\* each of its steps is taken in the end, and a task that waits at the gate
\* is woken and takes a permit that stays available.
GateSpec ==
    /\ Init
    /\ [][Next]_vars
    /\ \A u \in 1..RangeLen : WF_vars(Acquire(u)) /\ WF_vars(UnitStep(u))

\* scan_network is not running.
ScanIdle ==
    /\ pc = "idle"
    /\ interfaces = <<>>
    /\ idx = 1
    /\ hosts = <<>>
    /\ tasks = <<>>
    /\ joined = 0
    /\ range_hosts = <<>>
    /\ permits = MAX_CONCURRENT_SCANS
    /\ result = Err
    /\ env = Env("silent", LookupFails, ArpNoStart)
    /\ alive = {}
    /\ dead = {}
    /\ shown = "pending"

(***************************************************************************)
(* is_host_alive, attempt by attempt.                                      *)
(***************************************************************************)
\* Addresses is_host_alive is called with.
ProbedAddresses == {<<192, 168, 1, 2>>, <<10, 0, 0, 255>>}

\* A call of is_host_alive(ip): the host behind the address, how a ping of it
\* would end, the ports tried so far, how the ping subprocess ended if it was
\* run, and the value returned.
LivenessCall(ip, kind, ping) ==
    [pc |-> "ports", ip |-> ip, kind |-> kind, ping |-> ping,
     attempted |-> <<>>, output |-> None, ret |-> None]

LivenessInit ==
    /\ ScanIdle
    /\ derivation = DerivationIdle
    /\ unit = UnitIdle
    /\ mac_lookup = MacLookupIdle
    /\ desktop = DesktopIdle
    /\ local = LocalIdle
    /\ smb_api = SmbApiIdle
    /\ merge = MergeIdle
    /\ ftp = FtpIdle
    /\ webdav = WebdavIdle
    /\ nfs = NfsIdle
    /\ modules = ModulesIdle
    /\ http = HttpIdle
    /\ \E ip \in ProbedAddresses, kind \in HostKinds :
         \E ping \in PingOutcomes(kind) :
             liveness = LivenessCall(ip, kind, ping)

ConnectAttemptNoReturn ==
    /\ liveness.pc = "ports"
    /\ LET port == alive_ports[Len(liveness.attempted) + 1]
           last == Len(liveness.attempted) + 1 = Len(alive_ports)
       IN liveness' = [liveness EXCEPT !.attempted = Append(@, port),
                                       !.pc = IF last THEN "ping" ELSE "ports"]
    /\ UNCHANGED <<scan, derivation, unit, mac_lookup, desktop, local, smb_api, merge, ftp, webdav, nfs, modules, http>>

\* One turn of `for port in ports`: the connect to the next port under its
\* 100 ms timeout; return true when it is_ok, go on otherwise, and leave the
\* loop after the last port.
ConnectAttempt ==
    /\ liveness.pc = "ports"
    /\ LET port == alive_ports[Len(liveness.attempted) + 1]
           last == Len(liveness.attempted) + 1 = Len(alive_ports)
       IN IF TimeoutIsOk(Connect(liveness.kind, port), ALIVE_TIMEOUT_MS)
          THEN liveness' = [liveness EXCEPT !.attempted = Append(@, port),
                                            !.ret = Some(TRUE),
                                            !.pc = "returned"]
          ELSE liveness' = [liveness EXCEPT !.attempted = Append(@, port),
                                            !.pc = IF last THEN "ping" ELSE "ports"]
    /\ UNCHANGED <<scan, derivation, unit, mac_lookup, desktop, local, smb_api, merge, ftp, webdav, nfs, modules, http>>

\* The fallback: Command::new("ping") ... .output() ends.
PingEnds ==
    /\ liveness.pc = "ping"
    /\ liveness' = [liveness EXCEPT !.output = Some(liveness.ping),
                                    !.pc = "verdict"]
    /\ UNCHANGED <<scan, derivation, unit, mac_lookup, desktop, local, smb_api, merge, ftp, webdav, nfs, modules, http>>

\* The value returned after the fallback.
FallbackVerdict ==
    /\ liveness.pc = "verdict"
    /\ liveness' = [liveness EXCEPT !.ret = Some(PingVerdict(liveness.output[1])),
                                    !.pc = "returned"]
    /\ UNCHANGED <<scan, derivation, unit, mac_lookup, desktop, local, smb_api, merge, ftp, webdav, nfs, modules, http>>

LivenessNext ==
    \/ ConnectAttempt
    \/ PingEnds
    \/ FallbackVerdict

LivenessSpec == LivenessInit /\ [][LivenessNext]_vars
(***************************************************************************)
(* One interface of the loop of scan_network: its range, its tasks.        *)
(***************************************************************************)
\* Addresses an interface may carry.
InterfaceAddrs == {V6, V4(192, 168, 1, 77), V4(10, 0, 0, 0), V4(172, 16, 5, 255)}
RECURSIVE AddrLists(_)
AddrLists(n) ==
    IF n = 0 THEN {<<>>}
    ELSE AddrLists(n - 1) \cup
         {Append(l, a) : l \in {l \in AddrLists(n - 1) : Len(l) = n - 1},
                         a \in InterfaceAddrs}

DerivationInit ==
    /\ ScanIdle
    /\ liveness = LivenessIdle
    /\ unit = UnitIdle
    /\ mac_lookup = MacLookupIdle
    /\ desktop = DesktopIdle
    /\ local = LocalIdle
    /\ smb_api = SmbApiIdle
    /\ merge = MergeIdle
    /\ ftp = FtpIdle
    /\ webdav = WebdavIdle
    /\ nfs = NfsIdle
    /\ modules = ModulesIdle
    /\ http = HttpIdle
    /\ \E addrs \in AddrLists(MaxAddrs) :
         derivation = [pc |-> "derive",
                       interface |-> [name |-> "eth0", addr |-> addrs],
                       network |-> None, tasks |-> <<>>]

\* `if !interface.addr.is_empty()` and `if let Some(network) =
\* get_network_range(&interface)`: the interface is skipped or its range is
\* handed to scan_network_range.
DeriveRange ==
    /\ derivation.pc = "derive"
    /\ LET network == IF derivation.interface.addr = <<>> THEN None
                      ELSE get_network_range(derivation.interface)
       IN derivation' = [derivation EXCEPT
                           !.network = network,
                           !.pc = IF network = None THEN "skipped" ELSE "spawn"]
    /\ UNCHANGED <<scan, liveness, unit, mac_lookup, desktop, local, smb_api, merge, ftp, webdav, nfs, modules, http>>

\* The spawn loop of scan_network_range: one task per address of
\* network.iter().
SpawnTasks ==
    /\ derivation.pc = "spawn"
    /\ LET range == Ipv4NetworkIter(derivation.network[1])
       IN derivation' = [derivation EXCEPT
                           !.tasks = [k \in DOMAIN range |-> NewTask(range[k])],
                           !.pc = "spawned"]
    /\ UNCHANGED <<scan, liveness, unit, mac_lookup, desktop, local, smb_api, merge, ftp, webdav, nfs, modules, http>>

DerivationNext ==
    \/ DeriveRange
    \/ SpawnTasks

DerivationSpec == DerivationInit /\ [][DerivationNext]_vars

(***************************************************************************)
(* One spawned task, with scan_ports probe by probe.                       *)
(***************************************************************************)
\* The hosts the task may meet.
UnitKinds == {"silent", "nbt", "smb"}

\* The semaphore of the range and one task spawned for an address: the ports
\* whose probe task is running, the number of probe tasks the join loop has
\* awaited, scan_ports' open_ports vector and, as history, the ports whose
\* probe returned Some(port) in the order in which the probes ended.
UnitInit ==
    /\ ScanIdle
    /\ liveness = LivenessIdle
    /\ derivation = DerivationIdle
    /\ mac_lookup = MacLookupIdle
    /\ desktop = DesktopIdle
    /\ local = LocalIdle
    /\ smb_api = SmbApiIdle
    /\ merge = MergeIdle
    /\ ftp = FtpIdle
    /\ webdav = WebdavIdle
    /\ nfs = NfsIdle
    /\ modules = ModulesIdle
    /\ http = HttpIdle
    /\ \E kind \in UnitKinds :
         unit = [pc |-> "waiting", kind |-> kind, permits |-> MAX_CONCURRENT_SCANS,
                 running |-> {}, joined |-> 0, open_ports |-> <<>>,
                 completed |-> <<>>, out |-> None]

\* The probe of the port returns Some(port).
ProbeIsOk(port) == TimeoutIsOk(Connect(unit.kind, port), PORT_TIMEOUT_MS)

UnitAcquireDropped ==
    /\ unit.pc = "waiting"
    /\ unit.permits > 0
    /\ unit' = [unit EXCEPT !.pc = "liveness"]
    /\ UNCHANGED <<scan, liveness, derivation, mac_lookup, desktop, local, smb_api, merge, ftp, webdav, nfs, modules, http>>

\* let _permit = permit.acquire().await.ok()?
UnitAcquire ==
    /\ unit.pc = "waiting"
    /\ unit.permits > 0
    /\ unit' = [unit EXCEPT !.pc = "liveness", !.permits = @ - 1]
    /\ UNCHANGED <<scan, liveness, derivation, mac_lookup, desktop, local, smb_api, merge, ftp, webdav, nfs, modules, http>>

\* is_host_alive(ip).await returns; on false the task ends with None and
\* drops its permit.
UnitLiveness ==
    /\ unit.pc = "liveness"
    /\ \E outcome \in PingOutcomes(unit.kind) :
         IF FastStrategy(unit.kind, alive_ports) \/ PingVerdict(outcome)
         THEN unit' = [unit EXCEPT !.pc = "lookups"]
         ELSE unit' = [unit EXCEPT !.pc = "done", !.permits = @ + 1]
    /\ UNCHANGED <<scan, liveness, derivation, mac_lookup, desktop, local, smb_api, merge, ftp, webdav, nfs, modules, http>>

\* scan_host: the hostname and MAC address lookups, then the spawn loop of
\* scan_ports: one probe task per port of common_ports.
SpawnPortProbes ==
    /\ unit.pc = "lookups"
    /\ unit' = [unit EXCEPT !.pc = "scan",
                            !.running = {common_ports[k] : k \in DOMAIN common_ports}]
    /\ UNCHANGED <<scan, liveness, derivation, mac_lookup, desktop, local, smb_api, merge, ftp, webdav, nfs, modules, http>>

PortProbeEndsPushes(port) ==
    /\ unit.pc = "scan"
    /\ port \in unit.running
    /\ unit' = [unit EXCEPT
                  !.running = @ \ {port},
                  !.open_ports = IF ProbeIsOk(port) THEN Append(@, port) ELSE @,
                  !.completed = IF ProbeIsOk(port) THEN Append(@, port) ELSE @]
    /\ UNCHANGED <<scan, liveness, derivation, mac_lookup, desktop, local, smb_api, merge, ftp, webdav, nfs, modules, http>>

\* A probe task ends: its connect completed or its 200 ms timeout fired.
PortProbeEnds(port) ==
    /\ unit.pc = "scan"
    /\ port \in unit.running
    /\ unit' = [unit EXCEPT
                  !.running = @ \ {port},
                  !.completed = IF ProbeIsOk(port) THEN Append(@, port) ELSE @]
    /\ UNCHANGED <<scan, liveness, derivation, mac_lookup, desktop, local, smb_api, merge, ftp, webdav, nfs, modules, http>>

JoinPortProbePrepend ==
    /\ unit.pc = "scan"
    /\ unit.joined < Len(common_ports)
    /\ LET port == common_ports[unit.joined + 1]
       IN /\ port \notin unit.running
          /\ unit' = [unit EXCEPT
                        !.joined = @ + 1,
                        !.open_ports = IF ProbeIsOk(port) THEN <<port>> \o @ ELSE @]
    /\ UNCHANGED <<scan, liveness, derivation, mac_lookup, desktop, local, smb_api, merge, ftp, webdav, nfs, modules, http>>

\* The join loop of scan_ports awaits the next probe task, in the order of
\* common_ports, and pushes its port if it returned Some(port).
JoinPortProbe ==
    /\ unit.pc = "scan"
    /\ unit.joined < Len(common_ports)
    /\ LET port == common_ports[unit.joined + 1]
       IN /\ port \notin unit.running
          /\ unit' = [unit EXCEPT
                        !.joined = @ + 1,
                        !.open_ports = IF ProbeIsOk(port) THEN Append(@, port) ELSE @]
    /\ UNCHANGED <<scan, liveness, derivation, mac_lookup, desktop, local, smb_api, merge, ftp, webdav, nfs, modules, http>>

\* scan_ports returns Ok(open_ports); scan_host builds the record, the task
\* ends with it and drops its permit.
UnitReturns ==
    /\ unit.pc = "scan"
    /\ unit.joined = Len(common_ports)
    /\ unit' = [unit EXCEPT !.pc = "done", !.permits = @ + 1,
                            !.out = Some(unit.open_ports)]
    /\ UNCHANGED <<scan, liveness, derivation, mac_lookup, desktop, local, smb_api, merge, ftp, webdav, nfs, modules, http>>

UnitNext ==
    \/ UnitAcquire
    \/ UnitLiveness
    \/ SpawnPortProbes
    \/ \E port \in unit.running : PortProbeEnds(port)
    \/ JoinPortProbe
    \/ UnitReturns

UnitSpec == UnitInit /\ [][UnitNext]_vars

(***************************************************************************)
(* get_mac_address on the text arp prints.                                 *)
(***************************************************************************)
\* Fields of arp output: "at", "aa:bb:cc:dd:ee:ff", "2001:db8::8a2e:37",
\* "Address", "HWtype", "HWaddress".
AtToken == <<97, 116>>
MacToken == [i \in 1..17 |-> IF i % 3 = 0 THEN Colon ELSE 97 + (i \div 3)]
Ipv6Token == <<50, 48, 48, 49, 58, 100, 98, 56, 58, 58, 56, 97, 50, 101, 58, 51, 55>>
AddressToken == <<65, 100, 100, 114, 101, 115, 115>>
HWtypeToken == <<72, 87, 116, 121, 112, 101>>
HWaddressToken == <<72, 87, 97, 100, 100, 114, 101, 115, 115>>

\* The fields a line about the address may be made of: the address, the
\* address in parentheses, the address of a neighbour of which it is a
\* prefix, "?", and the fields above.
LineTokens(ip) ==
    {to_string(ip),
     <<ParenOpen>> \o to_string(ip) \o <<ParenClose>>,
     to_string(<<ip[1], ip[2], ip[3], ip[4] * 10>>),
     <<Question>>, AtToken, MacToken, Ipv6Token}

RECURSIVE TokenLists(_, _)
TokenLists(tokens, n) ==
    IF n = 0 THEN {<<>>}
    ELSE {<<t>> \o l : t \in tokens, l \in TokenLists(tokens, n - 1)}

\* Fields put on a line, separated by the given blanks.
RECURSIVE JoinFields(_, _)
JoinFields(fields, blanks) ==
    IF fields = <<>> THEN <<>>
    ELSE IF Len(fields) = 1 THEN fields[1]
    ELSE fields[1] \o blanks \o JoinFields(Tail(fields), blanks)

\* The lines arp may print about the address, and the lines that may come
\* before: the column header, an entry of the address without hardware address.
EntryLines(ip) ==
    UNION {{JoinFields(l, <<Space>>) : l \in TokenLists(LineTokens(ip), n)} :
           n \in 1..MaxFields}
LeadLines(ip) ==
    {JoinFields(<<AddressToken, HWtypeToken, HWaddressToken>>, <<Space, Space>>),
     JoinFields(<<to_string(ip), AtToken, AtToken>>, <<Space, Space>>)}

\* What `arp -n <ip>` may do: not start, exit with a failure, print bytes
\* that are not UTF-8, or print one or two lines.
ArpOutputs(ip) ==
    EntryLines(ip) \cup
    {lead \o <<Newline>> \o entry \o <<Newline>> :
        lead \in LeadLines(ip), entry \in EntryLines(ip)}
ArpProcess(started, success, utf8, stdout) ==
    [started |-> started, success |-> success, utf8 |-> utf8, stdout |-> stdout]
ArpProcesses(ip) ==
    {ArpProcess(FALSE, FALSE, TRUE, <<>>), ArpProcess(TRUE, FALSE, TRUE, <<>>),
     ArpProcess(TRUE, TRUE, FALSE, <<>>)}
    \cup {ArpProcess(TRUE, TRUE, TRUE, stdout) : stdout \in ArpOutputs(ip)}

MacLookupInit ==
    /\ ScanIdle
    /\ liveness = LivenessIdle
    /\ derivation = DerivationIdle
    /\ unit = UnitIdle
    /\ desktop = DesktopIdle
    /\ local = LocalIdle
    /\ smb_api = SmbApiIdle
    /\ merge = MergeIdle
    /\ ftp = FtpIdle
    /\ webdav = WebdavIdle
    /\ nfs = NfsIdle
    /\ modules = ModulesIdle
    /\ http = HttpIdle
    /\ \E ip \in {<<192, 168, 1, 2>>} :
         \E run \in ArpProcesses(ip) :
             mac_lookup = [pc |-> "arp", ip |-> ip, run |-> run, ret |-> None]

\* Command::new("arp").arg("-n").arg(ip).output() ends: None is returned when
\* it could not be started, exited with a failure or printed invalid UTF-8.
ArpEnds ==
    /\ mac_lookup.pc = "arp"
    /\ LET run == mac_lookup.run
       IN mac_lookup' = [mac_lookup EXCEPT
                           !.pc = IF run.started /\ run.success /\ run.utf8
                                  THEN "parse" ELSE "returned"]
    /\ UNCHANGED <<scan, liveness, derivation, unit, desktop, local, smb_api, merge, ftp, webdav, nfs, modules, http>>

\* The loop over output_str.lines(): the value returned.
ParseOutput ==
    /\ mac_lookup.pc = "parse"
    /\ mac_lookup' = [mac_lookup EXCEPT
                        !.ret = ParseArp(ArpLinesOf(mac_lookup.run.stdout, mac_lookup.ip)),
                        !.pc = "returned"]
    /\ UNCHANGED <<scan, liveness, derivation, unit, desktop, local, smb_api, merge, ftp, webdav, nfs, modules, http>>

MacLookupNext ==
    \/ ArpEnds
    \/ ParseOutput

MacLookupSpec == MacLookupInit /\ [][MacLookupNext]_vars

(***************************************************************************)
(* The desktop app: the commands on the shared AppConfig                   *)
(* (catalogizer-desktop/src-tauri/src/main.rs).                            *)
(***************************************************************************)
\* AppConfig and AppConfig::default().
AppConfig(server_url, auth_token, theme, auto_start) ==
    [server_url |-> server_url, auth_token |-> auth_token, theme |-> theme,
     auto_start |-> auto_start]
DefaultConfig == AppConfig(None, None, "dark", FALSE)
ConfigFields == <<"server_url", "auth_token", "theme", "auto_start">>

\* The invocations the frontend may make, with their arguments.
Invocation(name, arg) == [name |-> name, arg |-> arg]
Invocations ==
    <<Invocation("get_config", None),
      Invocation("update_config",
                 AppConfig(Some("http://b"), Some("t2"), "light", TRUE)),
      Invocation("set_server_url", "http://a"),
      Invocation("set_auth_token", "t1"),
      Invocation("clear_auth_token", None)>>
IsWrite(cmd) == cmd.name # "get_config"

\* Stores with a clear_auth_token that also resets the server URL.
StoresClearsUrl(cmd) ==
    CASE cmd.name = "get_config" -> <<>>
      [] cmd.name = "update_config" ->
            [k \in DOMAIN ConfigFields |-> <<ConfigFields[k], cmd.arg[ConfigFields[k]]>>]
      [] cmd.name = "set_server_url" -> <<<<"server_url", Some(cmd.arg)>>>>
      [] cmd.name = "set_auth_token" -> <<<<"auth_token", Some(cmd.arg)>>>>
      [] cmd.name = "clear_auth_token" -> <<<<"auth_token", None>>, <<"server_url", None>>>>

\* The fields a command stores into the locked AppConfig, in order, with the
\* values stored; `*config = new_config` stores every field.
Stores(cmd) ==
    CASE cmd.name = "get_config" -> <<>>
      [] cmd.name = "update_config" ->
            [k \in DOMAIN ConfigFields |-> <<ConfigFields[k], cmd.arg[ConfigFields[k]]>>]
      [] cmd.name = "set_server_url" -> <<<<"server_url", Some(cmd.arg)>>>>
      [] cmd.name = "set_auth_token" -> <<<<"auth_token", Some(cmd.arg)>>>>
      [] cmd.name = "clear_auth_token" -> <<<<"auth_token", None>>>>
\* The number of steps of the body of a command: its stores, or for
\* get_config the fields config.clone() copies.
BodyLen(cmd) == IF IsWrite(cmd) THEN Len(Stores(cmd)) ELSE Len(ConfigFields)

\* The commands given to the app: each is one of the invocations; the
\* commands are alike, so they are listed in the order of Invocations.
RECURSIVE CommandLists(_)
CommandLists(n) ==
    IF n = 0 THEN {<<>>}
    ELSE {Append(l, k) : l \in {l \in CommandLists(n - 1) : Len(l) = n - 1},
                         k \in DOMAIN Invocations}
AscendingLists(n) ==
    {l \in CommandLists(n) : \A i \in 1..(n - 1) : l[i] <= l[i + 1]}

\* A command not yet invoked.  `began` and `ended` are history: the number of
\* writes that had completed when the command was invoked and when it returned.
NewCommand(k) ==
    [cmd |-> Invocations[k], pc |-> "idle", step |-> 0, ret |-> DefaultConfig,
     began |-> 0, ended |-> 0]

DesktopInit ==
    /\ ScanIdle
    /\ liveness = LivenessIdle
    /\ derivation = DerivationIdle
    /\ unit = UnitIdle
    /\ mac_lookup = MacLookupIdle
    /\ local = LocalIdle
    /\ smb_api = SmbApiIdle
    /\ merge = MergeIdle
    /\ ftp = FtpIdle
    /\ webdav = WebdavIdle
    /\ nfs = NfsIdle
    /\ modules = ModulesIdle
    /\ http = HttpIdle
    /\ \E l \in AscendingLists(MaxCommands) :
         desktop = [config |-> DefaultConfig, mutex |-> 0,
                    commands |-> [p \in DOMAIN l |-> NewCommand(l[p])],
                    order |-> <<>>]

Commands == DOMAIN desktop.commands

\* The frontend invokes the command.
Invoke(p) ==
    /\ desktop.commands[p].pc = "idle"
    /\ desktop' = [desktop EXCEPT !.commands[p].pc = "lock",
                                  !.commands[p].began = Len(desktop.order)]
    /\ UNCHANGED <<scan, liveness, derivation, unit, mac_lookup, local, smb_api, merge, ftp, webdav, nfs, modules, http>>

LockUngated(p) ==
    /\ desktop.commands[p].pc = "lock"
    /\ desktop' = [desktop EXCEPT !.mutex = p,
                                  !.commands[p].pc = "body",
                                  !.commands[p].step = 1]
    /\ UNCHANGED <<scan, liveness, derivation, unit, mac_lookup, local, smb_api, merge, ftp, webdav, nfs, modules, http>>

\* config.lock().await: the command gets the guard when the mutex is free.
Lock(p) ==
    /\ desktop.commands[p].pc = "lock"
    /\ desktop.mutex = 0
    /\ desktop' = [desktop EXCEPT !.mutex = p,
                                  !.commands[p].pc = "body",
                                  !.commands[p].step = 1]
    /\ UNCHANGED <<scan, liveness, derivation, unit, mac_lookup, local, smb_api, merge, ftp, webdav, nfs, modules, http>>

\* One step of the body of a command: the next store through the guard, or
\* for get_config the copy of the next field by config.clone().
Body(p) ==
    /\ desktop.commands[p].pc = "body"
    /\ LET c == desktop.commands[p]
           field == ConfigFields[c.step]
           next == IF c.step = BodyLen(c.cmd) THEN "return" ELSE "body"
       IN IF IsWrite(c.cmd)
          THEN desktop' = [desktop EXCEPT
                             !.config[Stores(c.cmd)[c.step][1]] = Stores(c.cmd)[c.step][2],
                             !.commands[p].pc = next,
                             !.commands[p].step = c.step + 1]
          ELSE desktop' = [desktop EXCEPT
                             !.commands[p].ret[field] = desktop.config[field],
                             !.commands[p].pc = next,
                             !.commands[p].step = c.step + 1]
    /\ UNCHANGED <<scan, liveness, derivation, unit, mac_lookup, local, smb_api, merge, ftp, webdav, nfs, modules, http>>

\* The command returns Ok and its guard is dropped.
Return(p) ==
    /\ desktop.commands[p].pc = "return"
    /\ LET order == IF IsWrite(desktop.commands[p].cmd)
                    THEN Append(desktop.order, p) ELSE desktop.order
       IN desktop' = [desktop EXCEPT
                        !.mutex = IF desktop.mutex = p THEN 0 ELSE @,
                        !.order = order,
                        !.commands[p].pc = "done",
                        !.commands[p].ended = Len(order)]
    /\ UNCHANGED <<scan, liveness, derivation, unit, mac_lookup, local, smb_api, merge, ftp, webdav, nfs, modules, http>>

DesktopNext ==
    \/ \E p \in Commands : Invoke(p)
    \/ \E p \in Commands : Lock(p)
    \/ \E p \in Commands : Body(p)
    \/ \E p \in Commands : Return(p)

DesktopSpec == DesktopInit /\ [][DesktopNext]_vars

(***************************************************************************)
(* The connection tests of the installer wizard                            *)
(* (installer-wizard/src-tauri/src/main.rs): Result<bool, String>.         *)
(***************************************************************************)
OkBool(b) == [ok |-> TRUE, value |-> b, error |-> ""]
ErrString(e) == [ok |-> FALSE, value |-> FALSE, error |-> e]

(***************************************************************************)
(* test_local_connection, one check at a time, on a path of a directory    *)
(* that holds the entries p and q.  An entry is missing, a file, a         *)
(* directory that may or may not be read, or a symbolic link to one of     *)
(* these; the directory that holds the entries may or may not be searched. *)
(***************************************************************************)
EntryNames == {"p", "q"}
Entries == {"missing", "file", "dir", "dir_unreadable",
            "link_missing", "link_file", "link_dir", "link_dir_unreadable"}
Directories == {"dir", "dir_unreadable", "link_dir", "link_dir_unreadable"}
Files == {"file", "link_file"}
Filesystems == [search : BOOLEAN, entries : [EntryNames -> Entries]]

\* std::fs::metadata(path): stat, which follows links: the file type, or the
\* error of the system call.
Metadata(fs, name) ==
    IF ~fs.search THEN [ok |-> FALSE, is_dir |-> FALSE, error |-> "EACCES"]
    ELSE IF fs.entries[name] \in {"missing", "link_missing"}
         THEN [ok |-> FALSE, is_dir |-> FALSE, error |-> "ENOENT"]
    ELSE [ok |-> TRUE, is_dir |-> fs.entries[name] \in Directories, error |-> ""]
\* Path::exists: fs::metadata(path).is_ok().
PathExists(fs, name) == Metadata(fs, name).ok
\* Path::is_dir: fs::metadata(path).map(|m| m.is_dir()).unwrap_or(false).
PathIsDir(fs, name) == Metadata(fs, name).ok /\ Metadata(fs, name).is_dir
\* std::fs::read_dir(path): opendir.
ReadDir(fs, name) ==
    IF ~fs.search THEN [ok |-> FALSE, error |-> "EACCES"]
    ELSE IF fs.entries[name] \in {"missing", "link_missing"}
         THEN [ok |-> FALSE, error |-> "ENOENT"]
    ELSE IF fs.entries[name] \in Files THEN [ok |-> FALSE, error |-> "ENOTDIR"]
    ELSE IF fs.entries[name] \in {"dir_unreadable", "link_dir_unreadable"}
         THEN [ok |-> FALSE, error |-> "EACCES"]
    ELSE [ok |-> TRUE, error |-> ""]

LocalInit ==
    /\ ScanIdle
    /\ liveness = LivenessIdle
    /\ derivation = DerivationIdle
    /\ unit = UnitIdle
    /\ mac_lookup = MacLookupIdle
    /\ desktop = DesktopIdle
    /\ smb_api = SmbApiIdle
    /\ merge = MergeIdle
    /\ ftp = FtpIdle
    /\ webdav = WebdavIdle
    /\ nfs = NfsIdle
    /\ modules = ModulesIdle
    /\ http = HttpIdle
    /\ \E fs \in Filesystems, name \in EntryNames :
         local = [pc |-> "exists", fs |-> fs, initial |-> fs,
                  base_path |-> name, result |-> None]

\* if !path.exists() { return Err("Path does not exist: ..") }
CheckExists ==
    /\ local.pc = "exists"
    /\ local' = IF PathExists(local.fs, local.base_path)
                THEN [local EXCEPT !.pc = "is_dir"]
                ELSE [local EXCEPT !.pc = "done",
                                   !.result = Some(ErrString("Path does not exist"))]
    /\ UNCHANGED <<scan, liveness, derivation, unit, mac_lookup, desktop, smb_api, merge, ftp, webdav, nfs, modules, http>>

\* if !path.is_dir() { return Err("Path is not a directory: ..") }
CheckIsDir ==
    /\ local.pc = "is_dir"
    /\ local' = IF PathIsDir(local.fs, local.base_path)
                THEN [local EXCEPT !.pc = "read_dir"]
                ELSE [local EXCEPT !.pc = "done",
                                   !.result = Some(ErrString("Path is not a directory"))]
    /\ UNCHANGED <<scan, liveness, derivation, unit, mac_lookup, desktop, smb_api, merge, ftp, webdav, nfs, modules, http>>

\* std::fs::read_dir(path).map_err(..)?; Ok(true)
CheckReadDir ==
    /\ local.pc = "read_dir"
    /\ local' = IF ReadDir(local.fs, local.base_path).ok
                THEN [local EXCEPT !.pc = "done", !.result = Some(OkBool(TRUE))]
                ELSE [local EXCEPT !.pc = "done",
                                   !.result = Some(ErrString("Cannot read directory"))]
    /\ UNCHANGED <<scan, liveness, derivation, unit, mac_lookup, desktop, smb_api, merge, ftp, webdav, nfs, modules, http>>

LocalNext == CheckExists \/ CheckIsDir \/ CheckReadDir

LocalSpec == LocalInit /\ [][LocalNext]_vars

(***************************************************************************)
(* smb::scan_shares (installer-wizard/src-tauri/src/smb.rs): the request   *)
(* to the catalog API and the match on what comes back.                    *)
(***************************************************************************)
Backslash == "\\"
SMBShare(host, share_name, path, writable, description) ==
    [host |-> host, share_name |-> share_name, path |-> path,
     writable |-> writable, description |-> description]
\* The names and descriptions in get_common_shares.
CommonShareNames ==
    <<<<"shared", "Shared folder">>, <<"public", "Public folder">>,
      <<"media", "Media files">>, <<"downloads", "Downloads">>,
      <<"documents", "Documents">>, <<"music", "Music files">>,
      <<"videos", "Video files">>, <<"pictures", "Pictures">>,
      <<"backup", "Backup files">>>>
\* format!("\\\\{}\\{}", host, name), as the pieces of the string.
SharePath(host, name) == <<Backslash, Backslash, host, Backslash, name>>
get_common_shares(host) ==
    [k \in DOMAIN CommonShareNames |->
        SMBShare(host, CommonShareNames[k][1],
                 SharePath(host, CommonShareNames[k][1]), FALSE,
                 Some(CommonShareNames[k][2]))]

\* What send() gives: an error, or a response with a status and a body; a
\* body is text that is no list of shares, or the list it parses to.
RequestedHosts == {"nas", "192.168.1.10"}
Statuses == {200, 201, 204, 301, 400, 401, 404, 500, 503}
NotJson == [parses |-> FALSE, shares |-> <<>>]
Json(shares) == [parses |-> TRUE, shares |-> shares]
Bodies ==
    {NotJson, Json(<<>>),
     Json(<<SMBShare("nas", "films", <<"films">>, TRUE, None)>>)}
SendError(e) == [sent |-> FALSE, status |-> 0, body |-> NotJson, error |-> e]
HttpResponse(status, body) ==
    [sent |-> TRUE, status |-> status, body |-> body, error |-> ""]
Responses ==
    {SendError(e) : e \in {"connection refused", "timed out"}}
        \cup {HttpResponse(st, b) : st \in Statuses, b \in Bodies}
\* StatusCode::is_success.
IsSuccess(status) == status >= 200 /\ status < 300

\* Result<Vec<SMBShare>>.
OkShares(shares) == [ok |-> TRUE, shares |-> shares, error |-> ""]
ErrShares(e) == [ok |-> FALSE, shares |-> <<>>, error |-> e]

SmbApiInit ==
    /\ ScanIdle
    /\ liveness = LivenessIdle
    /\ derivation = DerivationIdle
    /\ unit = UnitIdle
    /\ mac_lookup = MacLookupIdle
    /\ desktop = DesktopIdle
    /\ local = LocalIdle
    /\ merge = MergeIdle
    /\ ftp = FtpIdle
    /\ webdav = WebdavIdle
    /\ nfs = NfsIdle
    /\ modules = ModulesIdle
    /\ http = HttpIdle
    /\ \E host \in RequestedHosts :
         smb_api = [pc |-> "send", host |-> host, response |-> None,
                    result |-> None]

\* client.post(..).json(&request_body).send().await
SendDiscover ==
    /\ smb_api.pc = "send"
    /\ \E r \in Responses :
         smb_api' = [smb_api EXCEPT !.pc = "match", !.response = Some(r)]
    /\ UNCHANGED <<scan, liveness, derivation, unit, mac_lookup, desktop, local, merge, ftp, webdav, nfs, modules, http>>

MatchResponseNoFallback ==
    /\ smb_api.pc = "match"
    /\ LET r == smb_api.response[1]
       IN smb_api' =
            [smb_api EXCEPT
               !.pc = "done",
               !.result =
                  Some(IF r.sent /\ IsSuccess(r.status) /\ r.body.parses
                       THEN OkShares(r.body.shares)
                       ELSE ErrShares("Failed to parse API response"))]
    /\ UNCHANGED <<scan, liveness, derivation, unit, mac_lookup, desktop, local, merge, ftp, webdav, nfs, modules, http>>

\* match response { Ok(resp) if resp.status().is_success() => .., Ok(resp) =>
\* .., Err(e) => .. }
MatchResponse ==
    /\ smb_api.pc = "match"
    /\ LET r == smb_api.response[1]
       IN smb_api' =
            [smb_api EXCEPT
               !.pc = "done",
               !.result =
                  Some(IF r.sent /\ IsSuccess(r.status)
                       THEN IF r.body.parses THEN OkShares(r.body.shares)
                            ELSE ErrShares("Failed to parse API response")
                       ELSE OkShares(get_common_shares(smb_api.host)))]
    /\ UNCHANGED <<scan, liveness, derivation, unit, mac_lookup, desktop, local, merge, ftp, webdav, nfs, modules, http>>

SmbApiNext == SendDiscover \/ MatchResponse

SmbApiSpec == SmbApiInit /\ [][SmbApiNext]_vars

(***************************************************************************)
(* The end of scan_network, step by step: the vectors the ranges returned  *)
(* are appended in the order of the interfaces, then sorted, then          *)
(* deduplicated.  The records of one address may differ from pass to pass. *)
(***************************************************************************)
\* The addresses the ranges share, in the order of the range.
MergedAddresses == <<<<192, 168, 1, 2>>, <<192, 168, 1, 10>>>>
\* What a pass may have recorded for an address: nothing, or the record
\* scan_host built from what the host showed in that pass.
PassRecords(ip) ==
    {None} \cup
    {Some(NetworkHost(ip, hostname, None, scan_ports(kind, common_ports))) :
        hostname \in {None, Some("nas.lan")}, kind \in {"icmp", "nbt"}}
\* The vectors scan_network_range may return: the records in range order.
RECURSIVE RangeVectors(_)
RangeVectors(n) ==
    IF n = 0 THEN {<<>>}
    ELSE {v \o r : v \in RangeVectors(n - 1), r \in PassRecords(MergedAddresses[n])}
\* The vectors of the passes, one per interface.
RECURSIVE PassLists(_)
PassLists(n) ==
    IF n = 0 THEN {<<>>}
    ELSE {Append(l, v) : l \in PassLists(n - 1),
                         v \in RangeVectors(Len(MergedAddresses))}

MergeInit ==
    /\ ScanIdle
    /\ liveness = LivenessIdle
    /\ derivation = DerivationIdle
    /\ unit = UnitIdle
    /\ mac_lookup = MacLookupIdle
    /\ desktop = DesktopIdle
    /\ local = LocalIdle
    /\ smb_api = SmbApiIdle
    /\ ftp = FtpIdle
    /\ webdav = WebdavIdle
    /\ nfs = NfsIdle
    /\ modules = ModulesIdle
    /\ http = HttpIdle
    /\ \E l \in PassLists(MergedRanges) :
         merge = [pc |-> "loop", passes |-> l, i |-> 1, hosts |-> <<>>]

\* hosts.extend(network_hosts) for the next interface.
ExtendHosts ==
    /\ merge.pc = "loop"
    /\ merge.i <= Len(merge.passes)
    /\ merge' = [merge EXCEPT !.hosts = @ \o merge.passes[merge.i],
                              !.i = @ + 1]
    /\ UNCHANGED <<scan, liveness, derivation, unit, mac_lookup, desktop, local, smb_api, ftp, webdav, nfs, modules, http>>

\* hosts.sort_by(|a, b| a.ip.cmp(&b.ip))
SortHosts ==
    /\ merge.pc = "loop"
    /\ merge.i > Len(merge.passes)
    /\ merge' = [merge EXCEPT !.hosts = SortByIp(@), !.pc = "sorted"]
    /\ UNCHANGED <<scan, liveness, derivation, unit, mac_lookup, desktop, local, smb_api, ftp, webdav, nfs, modules, http>>

\* hosts.dedup_by(|a, b| a.ip == b.ip); Ok(hosts)
DedupHosts ==
    /\ merge.pc = "sorted"
    /\ merge' = [merge EXCEPT !.hosts = DedupByIp(@), !.pc = "returned"]
    /\ UNCHANGED <<scan, liveness, derivation, unit, mac_lookup, desktop, local, smb_api, ftp, webdav, nfs, modules, http>>

MergeNext == ExtendHosts \/ SortHosts \/ DedupHosts

MergeSpec == MergeInit /\ [][MergeNext]_vars

(***************************************************************************)
(* test_ftp_connection, one write or read at a time, against a server that *)
(* answers each command with one reply.  The bytes of the replies form a   *)
(* stream: a read returns what has arrived and fits the 512-byte buffer,   *)
(* which may be a part of a reply or more than one reply.                  *)
(***************************************************************************)
\* A piece of the stream: the beginning of a reply with its code, or the
\* rest of a reply that did not arrive with its beginning.
ReplyStart(code) == [start |-> TRUE, code |-> code]
ReplyRest(code) == [start |-> FALSE, code |-> code]
\* str::starts_with on the text a read returned.
StartsWith(text, code) == text # <<>> /\ text[1].start /\ text[1].code = code

\* The servers: the code of the banner and of the reply to each command,
\* whether the banner arrives in two pieces, and the command, if any, that the
\* server leaves without an answer.
FtpCommands == <<"USER", "PASS", "CWD", "QUIT">>
FtpServers ==
    [banner : {"220", "421"}, USER : {"331", "230"}, PASS : {"230", "530"},
     CWD : {"250", "550"}, split : BOOLEAN,
     mute : {"none", "banner", "USER", "PASS", "CWD"}]
\* What the server puts on the stream on connect ("banner") or on a command.
ServerReply(server, what) ==
    IF server.mute = what THEN <<>>
    ELSE IF what = "banner" /\ server.split
         THEN <<ReplyStart(server.banner), ReplyRest(server.banner)>>
    ELSE <<ReplyStart(server[what])>>
\* The code the text of a step has to start with, and the error otherwise.
Expected(what) ==
    CASE what = "banner" -> Some("220")
      [] what = "USER" -> None
      [] what = "PASS" -> Some("230")
      [] what = "CWD" -> Some("250")
Refused(what) ==
    CASE what = "banner" -> "Unexpected FTP response"
      [] what = "PASS" -> "FTP authentication failed"
      [] what = "CWD" -> "FTP path not accessible"
ReadFailed(what) == IF what = "banner" THEN "Failed to read FTP banner" ELSE "Failed to read"
\* Where the function goes after the read of a step.
AfterRead(what, path) ==
    CASE what = "banner" -> "send_USER"
      [] what = "USER" -> "send_PASS"
      [] what = "PASS" -> IF path = None THEN "quit" ELSE "send_CWD"
      [] what = "CWD" -> "quit"

FtpInit ==
    /\ ScanIdle
    /\ liveness = LivenessIdle
    /\ derivation = DerivationIdle
    /\ unit = UnitIdle
    /\ mac_lookup = MacLookupIdle
    /\ desktop = DesktopIdle
    /\ local = LocalIdle
    /\ smb_api = SmbApiIdle
    /\ merge = MergeIdle
    /\ webdav = WebdavIdle
    /\ nfs = NfsIdle
    /\ modules = ModulesIdle
    /\ http = HttpIdle
    /\ \E server \in FtpServers, path \in {None, Some("/pub")} :
         ftp = [pc |-> "connect", server |-> server, path |-> path,
                wire |-> <<>>, sent |-> <<>>, replied |-> <<>>,
                result |-> None]

\* addr.parse() and TcpStream::connect_timeout: the address is no socket
\* address, the connection fails, or it is made and the server sends its banner.
FtpConnect ==
    /\ ftp.pc = "connect"
    /\ \E outcome \in {"invalid", "failed", "connected"} :
         ftp' = CASE outcome = "invalid" ->
                       [ftp EXCEPT !.pc = "done",
                                   !.result = Some(ErrString("Invalid address"))]
                  [] outcome = "failed" ->
                       [ftp EXCEPT !.pc = "done",
                                   !.result = Some(ErrString("FTP connection failed"))]
                  [] outcome = "connected" ->
                       [ftp EXCEPT !.pc = "read_banner",
                                   !.wire = ServerReply(ftp.server, "banner"),
                                   !.replied = IF ServerReply(ftp.server, "banner") = <<>>
                                               THEN <<>>
                                               ELSE <<<<"banner", ftp.server.banner>>>>]
    /\ UNCHANGED <<scan, liveness, derivation, unit, mac_lookup, desktop, local, smb_api, merge, webdav, nfs, modules, http>>

\* write!(stream, "<command> ..\r\n"): the write fails, or the command is sent
\* and the server puts its reply on the stream.
FtpSend(what) ==
    /\ ftp.pc = "send_" \o what
    /\ \E written \in BOOLEAN :
         ftp' = IF ~written
                THEN [ftp EXCEPT !.pc = "done",
                                 !.result = Some(ErrString("Failed to send " \o what))]
                ELSE [ftp EXCEPT !.pc = "read_" \o what,
                                 !.sent = Append(@, what),
                                 !.wire = @ \o ServerReply(ftp.server, what),
                                 !.replied = IF ServerReply(ftp.server, what) = <<>>
                                             THEN @
                                             ELSE Append(@, <<what, ftp.server[what]>>)]
    /\ UNCHANGED <<scan, liveness, derivation, unit, mac_lookup, desktop, local, smb_api, merge, webdav, nfs, modules, http>>

\* The outcome of stream.read(&mut buf) is the text next tests.
FtpTest(what, text) ==
    IF Expected(what) # None /\ ~StartsWith(text, Expected(what)[1])
    THEN [ftp EXCEPT !.pc = "done", !.result = Some(ErrString(Refused(what)))]
    ELSE [ftp EXCEPT !.pc = AfterRead(what, ftp.path)]

\* stream.read(&mut buf) after the connect or after a command, and the test
\* of the text: with nothing on the stream the read times out or returns 0
\* bytes; otherwise it returns pieces from the front of the stream.
FtpRead(what) ==
    /\ ftp.pc = "read_" \o what
    /\ IF ftp.wire = <<>>
       THEN \/ ftp' = [ftp EXCEPT !.pc = "done",
                                  !.result = Some(ErrString(ReadFailed(what)))]
            \/ ftp' = FtpTest(what, <<>>)
       ELSE \E n \in 1..Len(ftp.wire) :
              ftp' = [FtpTest(what, SubSeq(ftp.wire, 1, n)) EXCEPT
                        !.wire = SubSeq(ftp.wire, n + 1, Len(ftp.wire))]
    /\ UNCHANGED <<scan, liveness, derivation, unit, mac_lookup, desktop, local, smb_api, merge, webdav, nfs, modules, http>>

\* let _ = write!(stream, "QUIT\r\n"); Ok(true)
FtpQuit ==
    /\ ftp.pc = "quit"
    /\ \E written \in BOOLEAN :
         ftp' = [ftp EXCEPT !.pc = "done",
                            !.sent = IF written THEN Append(@, "QUIT") ELSE @,
                            !.result = Some(OkBool(TRUE))]
    /\ UNCHANGED <<scan, liveness, derivation, unit, mac_lookup, desktop, local, smb_api, merge, webdav, nfs, modules, http>>

FtpNext ==
    \/ FtpConnect
    \/ \E what \in {"USER", "PASS", "CWD"} : FtpSend(what)
    \/ \E what \in {"banner", "USER", "PASS", "CWD"} : FtpRead(what)
    \/ FtpQuit

FtpSpec == FtpInit /\ [][FtpNext]_vars

(***************************************************************************)
(* test_webdav_connection, step by step.  A response is the text           *)
(* read_to_string returns, as character codes: the status line, then the   *)
(* headers and the body the server chose to send.                          *)
(***************************************************************************)
\* "HTTP/1.1 " and "\r\n".
HttpVersion == <<72, 84, 84, 80, 47, 49, 46, 49, 32>>
Crlf == <<13, 10>>
\* What may follow the status line: nothing; "Content-Length: 200";
\* "Content-Length: 0"; a body "<h1>403</h1>"; "Server: nginx".
HttpRests ==
    {<<>>,
     <<67, 111, 110, 116, 101, 110, 116, 45, 76, 101, 110, 103, 116, 104, 58, 32,
       50, 48, 48, 13, 10, 13, 10>>,
     <<67, 111, 110, 116, 101, 110, 116, 45, 76, 101, 110, 103, 116, 104, 58, 32,
       48, 13, 10, 13, 10>>,
     <<13, 10, 60, 104, 49, 62, 52, 48, 51, 60, 47, 104, 49, 62>>,
     <<83, 101, 114, 118, 101, 114, 58, 32, 110, 103, 105, 110, 120, 13, 10, 13, 10>>}
HttpStatuses == {200, 207, 401, 403, 404, 500}
\* The text of a response with this status and this rest.
HttpText(status, rest) == HttpVersion \o Digits(status) \o Crlf \o rest

\* The test of the response at the end of test_webdav_connection.
ClassifyResponse(response) ==
    IF StrContains(response, Digits(207)) \/ StrContains(response, Digits(200))
    THEN OkBool(TRUE)
    ELSE IF StrContains(response, Digits(401)) \/ StrContains(response, Digits(403))
         THEN ErrString("WebDAV authentication failed")
    ELSE ErrString("WebDAV returned unexpected response")

WebdavInit ==
    /\ ScanIdle
    /\ liveness = LivenessIdle
    /\ derivation = DerivationIdle
    /\ unit = UnitIdle
    /\ mac_lookup = MacLookupIdle
    /\ desktop = DesktopIdle
    /\ local = LocalIdle
    /\ smb_api = SmbApiIdle
    /\ merge = MergeIdle
    /\ ftp = FtpIdle
    /\ nfs = NfsIdle
    /\ modules = ModulesIdle
    /\ http = HttpIdle
    /\ \E scheme \in {"http", "https", "none"}, status \in HttpStatuses,
          rest \in HttpRests :
         webdav = [pc |-> "parse", scheme |-> scheme, status |-> status,
                   rest |-> rest, sent |-> FALSE, response |-> None,
                   result |-> None]

\* strip_prefix("http://").or_else(|| strip_prefix("https://")): a URL with
\* neither prefix is refused.
WebdavParse ==
    /\ webdav.pc = "parse"
    /\ webdav' = IF webdav.scheme = "none"
                 THEN [webdav EXCEPT !.pc = "done",
                                     !.result = Some(ErrString("Invalid URL format"))]
                 ELSE [webdav EXCEPT !.pc = "connect"]
    /\ UNCHANGED <<scan, liveness, derivation, unit, mac_lookup, desktop, local, smb_api, merge, ftp, nfs, modules, http>>

\* port_addr.parse() and TcpStream::connect_timeout; for https the function
\* returns Ok(true) as soon as the connection is made.
WebdavConnect ==
    /\ webdav.pc = "connect"
    /\ \E outcome \in {"invalid", "failed", "connected"} :
         webdav' =
            CASE outcome = "invalid" ->
                   [webdav EXCEPT !.pc = "done",
                                  !.result = Some(ErrString("Invalid address"))]
              [] outcome = "failed" ->
                   [webdav EXCEPT !.pc = "done",
                                  !.result =
                                     Some(ErrString(IF webdav.scheme = "https"
                                                    THEN "WebDAV host not reachable"
                                                    ELSE "WebDAV connection failed"))]
              [] outcome = "connected" ->
                   IF webdav.scheme = "https"
                   THEN [webdav EXCEPT !.pc = "done", !.result = Some(OkBool(TRUE))]
                   ELSE [webdav EXCEPT !.pc = "write"]
    /\ UNCHANGED <<scan, liveness, derivation, unit, mac_lookup, desktop, local, smb_api, merge, ftp, nfs, modules, http>>

\* stream.write_all(request.as_bytes()): the PROPFIND request.
WebdavWrite ==
    /\ webdav.pc = "write"
    /\ \E written \in BOOLEAN :
         webdav' = IF written
                   THEN [webdav EXCEPT !.pc = "read", !.sent = TRUE]
                   ELSE [webdav EXCEPT !.pc = "done",
                                       !.result = Some(ErrString("Failed to send request"))]
    /\ UNCHANGED <<scan, liveness, derivation, unit, mac_lookup, desktop, local, smb_api, merge, ftp, nfs, modules, http>>

\* stream.read_to_string(&mut response): the whole response up to the end of
\* the stream, or an error (the timeout, bytes that are no UTF-8).
WebdavRead ==
    /\ webdav.pc = "read"
    /\ \E read \in BOOLEAN :
         webdav' = IF read
                   THEN [webdav EXCEPT !.pc = "classify",
                                       !.response = Some(HttpText(webdav.status, webdav.rest))]
                   ELSE [webdav EXCEPT !.pc = "done",
                                       !.result = Some(ErrString("Failed to read response"))]
    /\ UNCHANGED <<scan, liveness, derivation, unit, mac_lookup, desktop, local, smb_api, merge, ftp, nfs, modules, http>>

\* if response.contains("207") || response.contains("200") { .. } else if ..
WebdavClassify ==
    /\ webdav.pc = "classify"
    /\ webdav' = [webdav EXCEPT !.pc = "done",
                                !.result = Some(ClassifyResponse(webdav.response[1]))]
    /\ UNCHANGED <<scan, liveness, derivation, unit, mac_lookup, desktop, local, smb_api, merge, ftp, nfs, modules, http>>

WebdavNext ==
    \/ WebdavParse
    \/ WebdavConnect
    \/ WebdavWrite
    \/ WebdavRead
    \/ WebdavClassify

WebdavSpec == WebdavInit /\ [][WebdavNext]_vars

(***************************************************************************)
(* test_nfs_connection, step by step.  The mount point is a path of        *)
(* MountDepth components below the root; the filesystem is what each       *)
(* component is, from the top: missing, a directory (that may be           *)
(* read-only or not searchable), a file, or a dangling symbolic link.      *)
(***************************************************************************)
ComponentKinds ==
    {"missing", "dir", "dir_readonly", "dir_unsearchable", "file", "link_missing"}
DirKinds == {"dir", "dir_readonly", "dir_unsearchable"}
\* The filesystems: nothing exists below what is not a directory.
RECURSIVE Chains(_)
Chains(n) ==
    IF n = 0 THEN {<<>>}
    ELSE {<<k>> \o c : k \in ComponentKinds, c \in Chains(n - 1)}
MountFilesystems ==
    {c \in Chains(MountDepth) :
        \A i \in 1..(MountDepth - 1) : c[i] \notin DirKinds => c[i + 1] = "missing"}

\* The error of resolving the ancestors of component i, "" when every
\* ancestor is a directory that can be searched.
RECURSIVE AncestorError(_, _)
AncestorError(fs, i) ==
    IF i <= 1 THEN ""
    ELSE IF AncestorError(fs, i - 1) # "" THEN AncestorError(fs, i - 1)
    ELSE CASE fs[i - 1] \in {"missing", "link_missing"} -> "ENOENT"
           [] fs[i - 1] = "file" -> "ENOTDIR"
           [] fs[i - 1] = "dir_unsearchable" -> "EACCES"
           [] OTHER -> ""
\* Path::exists and Path::is_dir on component i: both stat the path and are
\* false when stat fails.
MountExists(fs, i) ==
    i = 0 \/ (AncestorError(fs, i) = "" /\ fs[i] \in DirKinds \cup {"file"})
MountIsDir(fs, i) == i = 0 \/ (AncestorError(fs, i) = "" /\ fs[i] \in DirKinds)
\* mkdir of component i: the filesystem after it and its error, "" on success.
Mkdir(fs, i) ==
    IF i = 0 THEN [fs |-> fs, error |-> "EEXIST"]
    ELSE IF AncestorError(fs, i) # "" THEN [fs |-> fs, error |-> AncestorError(fs, i)]
    ELSE IF fs[i] # "missing" THEN [fs |-> fs, error |-> "EEXIST"]
    ELSE IF i > 1 /\ fs[i - 1] = "dir_readonly" THEN [fs |-> fs, error |-> "EACCES"]
    ELSE [fs |-> [fs EXCEPT ![i] = "dir"], error |-> ""]
\* std::fs::create_dir_all on component i: mkdir; when an ancestor is
\* missing, create the parent and mkdir again; any other error is passed on
\* unless the path is a directory.
RECURSIVE CreateDirAll(_, _)
CreateDirAll(fs, i) ==
    LET first == Mkdir(fs, i)
    IN IF first.error = "" THEN first
       ELSE IF first.error = "ENOENT" /\ i > 0
            THEN LET parent == CreateDirAll(fs, i - 1)
                     again == Mkdir(parent.fs, i)
                 IN IF parent.error # "" THEN parent
                    ELSE IF again.error # "" /\ MountIsDir(parent.fs, i)
                         THEN [fs |-> parent.fs, error |-> ""]
                    ELSE again
       ELSE IF MountIsDir(fs, i) THEN [fs |-> fs, error |-> ""]
       ELSE first

NfsInit ==
    /\ ScanIdle
    /\ liveness = LivenessIdle
    /\ derivation = DerivationIdle
    /\ unit = UnitIdle
    /\ mac_lookup = MacLookupIdle
    /\ desktop = DesktopIdle
    /\ local = LocalIdle
    /\ smb_api = SmbApiIdle
    /\ merge = MergeIdle
    /\ ftp = FtpIdle
    /\ webdav = WebdavIdle
    /\ modules = ModulesIdle
    /\ http = HttpIdle
    /\ \E fs \in MountFilesystems :
         nfs = [pc |-> "connect", fs |-> fs, initial |-> fs,
                connected |-> FALSE, result |-> None]

NfsConnectCreatesFirst ==
    /\ nfs.pc = "connect"
    /\ \E outcome \in {"invalid", "failed", "connected"} :
         nfs' = CASE outcome = "invalid" ->
                       [nfs EXCEPT !.pc = "done",
                                   !.result = Some(ErrString("Invalid address"))]
                  [] outcome = "failed" ->
                       [nfs EXCEPT !.pc = "done",
                                   !.fs = CreateDirAll(nfs.fs, MountDepth).fs,
                                   !.result = Some(ErrString("NFS host not reachable on port 2049"))]
                  [] outcome = "connected" ->
                       [nfs EXCEPT !.pc = "exists", !.connected = TRUE]
    /\ UNCHANGED <<scan, liveness, derivation, unit, mac_lookup, desktop, local, smb_api, merge, ftp, webdav, modules, http>>

\* addr.parse() and TcpStream::connect_timeout to port 2049.
NfsConnect ==
    /\ nfs.pc = "connect"
    /\ \E outcome \in {"invalid", "failed", "connected"} :
         nfs' = CASE outcome = "invalid" ->
                       [nfs EXCEPT !.pc = "done",
                                   !.result = Some(ErrString("Invalid address"))]
                  [] outcome = "failed" ->
                       [nfs EXCEPT !.pc = "done",
                                   !.result = Some(ErrString("NFS host not reachable on port 2049"))]
                  [] outcome = "connected" ->
                       [nfs EXCEPT !.pc = "exists", !.connected = TRUE]
    /\ UNCHANGED <<scan, liveness, derivation, unit, mac_lookup, desktop, local, smb_api, merge, ftp, webdav, modules, http>>

\* if !mount_path.exists() { .. } ... Ok(true)
NfsCheckExists ==
    /\ nfs.pc = "exists"
    /\ nfs' = IF MountExists(nfs.fs, MountDepth)
              THEN [nfs EXCEPT !.pc = "done", !.result = Some(OkBool(TRUE))]
              ELSE [nfs EXCEPT !.pc = "create"]
    /\ UNCHANGED <<scan, liveness, derivation, unit, mac_lookup, desktop, local, smb_api, merge, ftp, webdav, modules, http>>

\* std::fs::create_dir_all(mount_path).map_err(..)?; Ok(true)
NfsCreateMountPoint ==
    /\ nfs.pc = "create"
    /\ LET made == CreateDirAll(nfs.fs, MountDepth)
       IN nfs' = [nfs EXCEPT !.pc = "done",
                             !.fs = made.fs,
                             !.result = Some(IF made.error = "" THEN OkBool(TRUE)
                                             ELSE ErrString("Cannot create mount point"))]
    /\ UNCHANGED <<scan, liveness, derivation, unit, mac_lookup, desktop, local, smb_api, merge, ftp, webdav, modules, http>>

NfsNext == NfsConnect \/ NfsCheckExists \/ NfsCreateMountPoint

NfsSpec == NfsInit /\ [][NfsNext]_vars

(***************************************************************************)
(* The connection tests twice: the functions of the modules ftp, webdav,   *)
(* nfs and local, and the commands of main.rs, each as the run it makes    *)
(* against an environment that fixes the outcome of every I/O step: the    *)
(* steps in their order and the outcome at the end.                        *)
(***************************************************************************)
Run(steps, outcome) == [steps |-> steps, outcome |-> outcome]
ConnectOutcomes == {"invalid", "failed", "connected"}

\* What a read of the FTP stream gives: None for an error, or the text.
FtpReplyCodes == {"220", "230", "250"}
FtpTexts == {<<>>} \cup {<<ReplyStart(c)>> : c \in FtpReplyCodes}
FtpReads == {None} \cup {Some(t) : t \in FtpTexts}
\* written: the writes that succeed before one fails.
FtpEnvs ==
    [connect : ConnectOutcomes, timeout_set : BOOLEAN, reads : [1..4 -> FtpReads],
     written : 0..Len(FtpCommands), path : {None, Some("/pub")}]

\* ftp::test_connection with the check of the reply to PASS left out.
ftp_test_connection_no_auth_check(peer) ==
    LET banner == <<"connect", "set_read_timeout", "read">>
        user == banner \o <<"write USER", "read">>
        pass == user \o <<"write PASS", "read">>
        cwd == pass \o <<"write CWD", "read">>
    IN IF peer.connect = "invalid" THEN Run(<<>>, ErrString("Invalid address"))
       ELSE IF peer.connect = "failed"
            THEN Run(<<"connect">>, ErrString("FTP connection failed"))
       ELSE IF ~peer.timeout_set
            THEN Run(<<"connect", "set_read_timeout">>, ErrString("Failed to set timeout"))
       ELSE IF peer.reads[1] = None THEN Run(banner, ErrString("Failed to read FTP banner"))
       ELSE IF ~StartsWith(peer.reads[1][1], "220")
            THEN Run(banner, ErrString("Unexpected FTP response"))
       ELSE IF peer.written < 1
            THEN Run(banner \o <<"write USER">>, ErrString("Failed to send USER"))
       ELSE IF peer.reads[2] = None THEN Run(user, ErrString("Failed to read"))
       ELSE IF peer.written < 2
            THEN Run(user \o <<"write PASS">>, ErrString("Failed to send PASS"))
       ELSE IF peer.reads[3] = None THEN Run(pass, ErrString("Failed to read"))
       ELSE IF peer.path = None THEN Run(pass \o <<"write QUIT">>, OkBool(TRUE))
       ELSE IF peer.written < 3
            THEN Run(pass \o <<"write CWD">>, ErrString("Failed to send CWD"))
       ELSE IF peer.reads[4] = None THEN Run(cwd, ErrString("Failed to read"))
       ELSE IF ~StartsWith(peer.reads[4][1], "250")
            THEN Run(cwd, ErrString("FTP path not accessible"))
       ELSE Run(cwd \o <<"write QUIT">>, OkBool(TRUE))

\* ftp::test_connection (ftp.rs).
ftp_test_connection(peer) ==
    LET banner == <<"connect", "set_read_timeout", "read">>
        user == banner \o <<"write USER", "read">>
        pass == user \o <<"write PASS", "read">>
        cwd == pass \o <<"write CWD", "read">>
    IN IF peer.connect = "invalid" THEN Run(<<>>, ErrString("Invalid address"))
       ELSE IF peer.connect = "failed"
            THEN Run(<<"connect">>, ErrString("FTP connection failed"))
       ELSE IF ~peer.timeout_set
            THEN Run(<<"connect", "set_read_timeout">>, ErrString("Failed to set timeout"))
       ELSE IF peer.reads[1] = None THEN Run(banner, ErrString("Failed to read FTP banner"))
       ELSE IF ~StartsWith(peer.reads[1][1], "220")
            THEN Run(banner, ErrString("Unexpected FTP response"))
       ELSE IF peer.written < 1
            THEN Run(banner \o <<"write USER">>, ErrString("Failed to send USER"))
       ELSE IF peer.reads[2] = None THEN Run(user, ErrString("Failed to read"))
       ELSE IF peer.written < 2
            THEN Run(user \o <<"write PASS">>, ErrString("Failed to send PASS"))
       ELSE IF peer.reads[3] = None THEN Run(pass, ErrString("Failed to read"))
       ELSE IF ~StartsWith(peer.reads[3][1], "230")
            THEN Run(pass, ErrString("FTP authentication failed"))
       ELSE IF peer.path = None THEN Run(pass \o <<"write QUIT">>, OkBool(TRUE))
       ELSE IF peer.written < 3
            THEN Run(pass \o <<"write CWD">>, ErrString("Failed to send CWD"))
       ELSE IF peer.reads[4] = None THEN Run(cwd, ErrString("Failed to read"))
       ELSE IF ~StartsWith(peer.reads[4][1], "250")
            THEN Run(cwd, ErrString("FTP path not accessible"))
       ELSE Run(cwd \o <<"write QUIT">>, OkBool(TRUE))

\* The command test_ftp_connection (main.rs).
test_ftp_connection(peer) ==
    LET connected == <<"connect", "set_read_timeout">>
        Read(i) == peer.reads[i]
    IN CASE peer.connect = "invalid" -> Run(<<>>, ErrString("Invalid address"))
         [] peer.connect = "failed" -> Run(<<"connect">>, ErrString("FTP connection failed"))
         [] OTHER ->
            IF ~peer.timeout_set THEN Run(connected, ErrString("Failed to set timeout"))
            ELSE LET s1 == Append(connected, "read")
                 IN IF Read(1) = None THEN Run(s1, ErrString("Failed to read FTP banner"))
                    ELSE IF ~StartsWith(Read(1)[1], "220")
                         THEN Run(s1, ErrString("Unexpected FTP response"))
                    ELSE LET s2 == Append(s1, "write USER")
                         IN IF peer.written = 0 THEN Run(s2, ErrString("Failed to send USER"))
                            ELSE LET s3 == Append(s2, "read")
                                 IN IF Read(2) = None THEN Run(s3, ErrString("Failed to read"))
                                    ELSE LET s4 == Append(s3, "write PASS")
                                         IN IF peer.written = 1
                                            THEN Run(s4, ErrString("Failed to send PASS"))
                                            ELSE LET s5 == Append(s4, "read")
                                                     s6 == Append(s5, "write CWD")
                                                     s7 == Append(s6, "read")
                                                 IN IF Read(3) = None
                                                    THEN Run(s5, ErrString("Failed to read"))
                                                    ELSE IF ~StartsWith(Read(3)[1], "230")
                                                    THEN Run(s5, ErrString("FTP authentication failed"))
                                                    ELSE IF peer.path = None
                                                    THEN Run(Append(s5, "write QUIT"), OkBool(TRUE))
                                                    ELSE IF peer.written = 2
                                                    THEN Run(s6, ErrString("Failed to send CWD"))
                                                    ELSE IF Read(4) = None
                                                    THEN Run(s7, ErrString("Failed to read"))
                                                    ELSE IF ~StartsWith(Read(4)[1], "250")
                                                    THEN Run(s7, ErrString("FTP path not accessible"))
                                                    ELSE Run(Append(s7, "write QUIT"), OkBool(TRUE))

\* The environments of the WebDAV test: what the URL starts with, the
\* connect, the two timeouts, the write, and the response read (None for an
\* error).
WebdavEnvs ==
    [scheme : {"http", "https", "none"}, connect : ConnectOutcomes,
     write_timeout_set : BOOLEAN, written : BOOLEAN, read_timeout_set : BOOLEAN,
     response : {None} \cup {Some(HttpText(status, rest)) :
                                status \in HttpStatuses, rest \in HttpRests}]

\* webdav::test_connection (webdav.rs).
webdav_test_connection(peer) ==
    IF peer.scheme = "none" THEN Run(<<>>, ErrString("Invalid URL format"))
    ELSE IF peer.scheme = "https"
         THEN CASE peer.connect = "invalid" -> Run(<<>>, ErrString("Invalid address"))
                [] peer.connect = "failed" ->
                     Run(<<"connect">>, ErrString("WebDAV host not reachable"))
                [] peer.connect = "connected" -> Run(<<"connect">>, OkBool(TRUE))
    ELSE IF peer.connect = "invalid" THEN Run(<<>>, ErrString("Invalid address"))
    ELSE IF peer.connect = "failed"
         THEN Run(<<"connect">>, ErrString("WebDAV connection failed"))
    ELSE IF ~peer.write_timeout_set
         THEN Run(<<"connect", "set_write_timeout">>, ErrString("Failed to set timeout"))
    ELSE IF ~peer.written
         THEN Run(<<"connect", "set_write_timeout", "write PROPFIND">>,
                  ErrString("Failed to send request"))
    ELSE IF ~peer.read_timeout_set
         THEN Run(<<"connect", "set_write_timeout", "write PROPFIND", "set_read_timeout">>,
                  ErrString("Failed to set timeout"))
    ELSE LET steps == <<"connect", "set_write_timeout", "write PROPFIND",
                        "set_read_timeout", "read_to_string">>
         IN IF peer.response = None THEN Run(steps, ErrString("Failed to read response"))
            ELSE IF \/ StrContains(peer.response[1], Digits(207))
                    \/ StrContains(peer.response[1], Digits(200))
                 THEN Run(steps, OkBool(TRUE))
            ELSE IF \/ StrContains(peer.response[1], Digits(401))
                    \/ StrContains(peer.response[1], Digits(403))
                 THEN Run(steps, ErrString("WebDAV authentication failed"))
            ELSE Run(steps, ErrString("WebDAV returned unexpected response"))

\* The command test_webdav_connection (main.rs).
test_webdav_connection(peer) ==
    LET Step(done, step, ok, error, then) ==
            IF ok THEN then ELSE Run(Append(done, step), ErrString(error))
        s1 == <<"connect">>
        s2 == Append(s1, "set_write_timeout")
        s3 == Append(s2, "write PROPFIND")
        s4 == Append(s3, "set_read_timeout")
        s5 == Append(s4, "read_to_string")
    IN IF peer.scheme = "none" THEN Run(<<>>, ErrString("Invalid URL format"))
       ELSE IF peer.connect = "invalid" THEN Run(<<>>, ErrString("Invalid address"))
       ELSE IF peer.scheme = "https"
            THEN Step(<<>>, "connect", peer.connect = "connected",
                      "WebDAV host not reachable", Run(s1, OkBool(TRUE)))
       ELSE Step(<<>>, "connect", peer.connect = "connected", "WebDAV connection failed",
            Step(s1, "set_write_timeout", peer.write_timeout_set, "Failed to set timeout",
            Step(s2, "write PROPFIND", peer.written, "Failed to send request",
            Step(s3, "set_read_timeout", peer.read_timeout_set, "Failed to set timeout",
            Step(s4, "read_to_string", peer.response # None, "Failed to read response",
                 Run(s5, ClassifyResponse(peer.response[1])))))))

\* The environments of the NFS test: the connect and the filesystem.
NfsEnvs == [connect : ConnectOutcomes, fs : MountFilesystems]
\* A run that also tells the filesystem it leaves.
RunFs(steps, outcome, fs) == [steps |-> steps, outcome |-> outcome, fs |-> fs]

\* nfs::test_connection (nfs.rs).
nfs_test_connection(peer) ==
    IF peer.connect = "invalid" THEN RunFs(<<>>, ErrString("Invalid address"), peer.fs)
    ELSE IF peer.connect = "failed"
         THEN RunFs(<<"connect">>, ErrString("NFS host not reachable on port 2049"), peer.fs)
    ELSE IF MountExists(peer.fs, MountDepth)
         THEN RunFs(<<"connect", "exists">>, OkBool(TRUE), peer.fs)
    ELSE LET made == CreateDirAll(peer.fs, MountDepth)
         IN RunFs(<<"connect", "exists", "create_dir_all">>,
                  IF made.error = "" THEN OkBool(TRUE)
                  ELSE ErrString("Cannot create mount point"),
                  made.fs)

\* The command test_nfs_connection (main.rs).
test_nfs_connection(peer) ==
    CASE peer.connect = "invalid" -> RunFs(<<>>, ErrString("Invalid address"), peer.fs)
      [] peer.connect = "failed" ->
           RunFs(<<"connect">>, ErrString("NFS host not reachable on port 2049"), peer.fs)
      [] peer.connect = "connected" ->
           IF ~MountExists(peer.fs, MountDepth)
           THEN LET made == CreateDirAll(peer.fs, MountDepth)
                IN IF made.error # ""
                   THEN RunFs(<<"connect", "exists", "create_dir_all">>,
                              ErrString("Cannot create mount point"), made.fs)
                   ELSE RunFs(<<"connect", "exists", "create_dir_all">>,
                              OkBool(TRUE), made.fs)
           ELSE RunFs(<<"connect", "exists">>, OkBool(TRUE), peer.fs)

\* The environments of the local test: the filesystem and the path.
LocalEnvs == [fs : Filesystems, base_path : EntryNames]

\* local::test_connection (local.rs).
local_test_connection(peer) ==
    IF ~PathExists(peer.fs, peer.base_path)
    THEN Run(<<"exists">>, ErrString("Path does not exist"))
    ELSE IF ~PathIsDir(peer.fs, peer.base_path)
         THEN Run(<<"exists", "is_dir">>, ErrString("Path is not a directory"))
    ELSE IF ~ReadDir(peer.fs, peer.base_path).ok
         THEN Run(<<"exists", "is_dir", "read_dir">>, ErrString("Cannot read directory"))
    ELSE Run(<<"exists", "is_dir", "read_dir">>, OkBool(TRUE))

\* The command test_local_connection (main.rs).
test_local_connection(peer) ==
    CASE ~PathExists(peer.fs, peer.base_path) ->
           Run(<<"exists">>, ErrString("Path does not exist"))
      [] PathExists(peer.fs, peer.base_path) /\ ~PathIsDir(peer.fs, peer.base_path) ->
           Run(<<"exists", "is_dir">>, ErrString("Path is not a directory"))
      [] OTHER ->
           Run(<<"exists", "is_dir", "read_dir">>,
               IF ReadDir(peer.fs, peer.base_path).ok THEN OkBool(TRUE)
               ELSE ErrString("Cannot read directory"))

\* The function of the module and the command of main.rs of each protocol.
ModuleFunction(protocol, peer) ==
    CASE protocol = "ftp" -> ftp_test_connection(peer)
      [] protocol = "webdav" -> webdav_test_connection(peer)
      [] protocol = "nfs" -> nfs_test_connection(peer)
      [] protocol = "local" -> local_test_connection(peer)
Command(protocol, peer) ==
    CASE protocol = "ftp" -> test_ftp_connection(peer)
      [] protocol = "webdav" -> test_webdav_connection(peer)
      [] protocol = "nfs" -> test_nfs_connection(peer)
      [] protocol = "local" -> test_local_connection(peer)
ProtocolEnvs(protocol) ==
    CASE protocol = "ftp" -> FtpEnvs
      [] protocol = "webdav" -> WebdavEnvs
      [] protocol = "nfs" -> NfsEnvs
      [] protocol = "local" -> LocalEnvs

ModulesInit ==
    /\ ScanIdle
    /\ liveness = LivenessIdle
    /\ derivation = DerivationIdle
    /\ unit = UnitIdle
    /\ mac_lookup = MacLookupIdle
    /\ desktop = DesktopIdle
    /\ local = LocalIdle
    /\ smb_api = SmbApiIdle
    /\ merge = MergeIdle
    /\ ftp = FtpIdle
    /\ webdav = WebdavIdle
    /\ nfs = NfsIdle
    /\ http = HttpIdle
    /\ \E protocol \in {"ftp", "webdav", "nfs", "local"} :
         \E peer \in ProtocolEnvs(protocol) :
            modules = [pc |-> "called", protocol |-> protocol, peer |-> peer,
                       function |-> None, command |-> None]

\* The function of the module runs against the environment.
CallModuleFunction ==
    /\ modules.pc = "called"
    /\ modules.function = None
    /\ modules' = [modules EXCEPT
                     !.function = Some(ModuleFunction(modules.protocol, modules.peer))]
    /\ UNCHANGED <<scan, liveness, derivation, unit, mac_lookup, desktop, local, smb_api, merge, ftp, webdav, nfs, http>>

\* The command runs against the same environment.
CallCommand ==
    /\ modules.pc = "called"
    /\ modules.command = None
    /\ modules' = [modules EXCEPT
                     !.command = Some(Command(modules.protocol, modules.peer))]
    /\ UNCHANGED <<scan, liveness, derivation, unit, mac_lookup, desktop, local, smb_api, merge, ftp, webdav, nfs, http>>

ModulesNext == CallModuleFunction \/ CallCommand

ModulesSpec == ModulesInit /\ [][ModulesNext]_vars

(***************************************************************************)
(* make_http_request of the desktop app.  A method is a string, here the   *)
(* sequence of the code points of its characters.                          *)
(***************************************************************************)
MethodGet == <<71, 69, 84>>
MethodPost == <<80, 79, 83, 84>>
MethodPut == <<80, 85, 84>>
MethodDelete == <<68, 69, 76, 69, 84, 69>>
MethodPatch == <<80, 65, 84, 67, 72>>
MethodHead == <<72, 69, 65, 68>>
\* The arms of the match on the method.
MatchArms == {MethodGet, MethodPost, MethodPut, MethodDelete, MethodPatch}

\* char::to_uppercase: the upper case of a character, which may be more than
\* one character: a-z, the long s (U+017F), the sharp s (U+00DF) and the
\* ligature st (U+FB06); every other character of the inputs maps to itself.
CharToUppercase(c) ==
    IF c \in 97..122 THEN <<c - 32>>
    ELSE IF c = 383 THEN <<83>>
    ELSE IF c = 223 THEN <<83, 83>>
    ELSE IF c = 64262 THEN <<83, 84>>
    ELSE <<c>>
\* str::to_uppercase: character by character.
RECURSIVE ToUppercase(_)
ToUppercase(s) ==
    IF s = <<>> THEN <<>> ELSE CharToUppercase(Head(s)) \o ToUppercase(Tail(s))

\* The methods given: every spelling of a word in upper and lower case, a
\* long s for an s; and words with a character more or less.
RECURSIVE Spellings(_)
Spellings(word) ==
    IF word = <<>> THEN {<<>>}
    ELSE {<<c>> \o rest :
            c \in {Head(word), Head(word) + 32}
                     \cup (IF Head(word) = 83 THEN {383} ELSE {}),
            rest \in Spellings(Tail(word))}
MethodsGiven ==
    UNION {Spellings(word) : word \in MatchArms \cup {MethodHead}}
    \cup {<<>>,
          <<71, 69>>,
          <<71, 69, 84, 83>>,
          <<103, 101, 116, 32>>,
          <<32, 71, 69, 84>>,
          <<112, 111, 64262>>,
          <<112, 111, 223, 116>>,
          <<112, 117, 116, 10>>}
\* How request.send() and response.text() end.
SendOutcomes == {"failed", "unreadable", "text"}
OkText(text) == [ok |-> TRUE, value |-> text, error |-> ""]

HttpInit ==
    /\ ScanIdle
    /\ liveness = LivenessIdle
    /\ derivation = DerivationIdle
    /\ unit = UnitIdle
    /\ mac_lookup = MacLookupIdle
    /\ desktop = DesktopIdle
    /\ local = LocalIdle
    /\ smb_api = SmbApiIdle
    /\ merge = MergeIdle
    /\ ftp = FtpIdle
    /\ webdav = WebdavIdle
    /\ nfs = NfsIdle
    /\ modules = ModulesIdle
    /\ \E method \in MethodsGiven, body \in {None, Some("{}")} :
         http = [pc |-> "match", method |-> method, body |-> body,
                 request |-> None, sent |-> 0, result |-> None]

MatchMethodAsGiven ==
    /\ http.pc = "match"
    /\ http' = IF http.method \in MatchArms
               THEN [http EXCEPT !.pc = "send",
                                 !.request = Some([method |-> http.method,
                                                   body |-> None])]
               ELSE [http EXCEPT !.pc = "done",
                                 !.result = Some(ErrString("Unsupported HTTP method"))]
    /\ UNCHANGED <<scan, liveness, derivation, unit, mac_lookup, desktop, local, smb_api, merge, ftp, webdav, nfs, modules>>

\* match method.to_uppercase().as_str() { "GET" => client.get(&url), ..,
\* _ => return Err(..) }: the request builder of the arm, or the error.
MatchMethod ==
    /\ http.pc = "match"
    /\ http' = IF ToUppercase(http.method) \in MatchArms
               THEN [http EXCEPT !.pc = "send",
                                 !.request = Some([method |-> ToUppercase(http.method),
                                                   body |-> None])]
               ELSE [http EXCEPT !.pc = "done",
                                 !.result = Some(ErrString("Unsupported HTTP method"))]
    /\ UNCHANGED <<scan, liveness, derivation, unit, mac_lookup, desktop, local, smb_api, merge, ftp, webdav, nfs, modules>>

\* The headers and the body are added, and request.send().await and
\* response.text().await end.
SendRequest ==
    /\ http.pc = "send"
    /\ \E outcome \in SendOutcomes :
         http' = [http EXCEPT
                    !.pc = "done",
                    !.request = Some([http.request[1] EXCEPT !.body = http.body]),
                    !.sent = http.sent + 1,
                    !.result =
                       Some(CASE outcome = "failed" -> ErrString("Request failed")
                              [] outcome = "unreadable" -> ErrString("Failed to read response")
                              [] outcome = "text" -> OkText("response"))]
    /\ UNCHANGED <<scan, liveness, derivation, unit, mac_lookup, desktop, local, smb_api, merge, ftp, webdav, nfs, modules>>

HttpNext == MatchMethod \/ SendRequest

HttpSpec == HttpInit /\ [][HttpNext]_vars

(***************************************************************************)
(* Properties of the scan.                                                 *)
(***************************************************************************)
Returned == pc = "returned" /\ result.ok
ResultIps == {result.hosts[k].ip : k \in DOMAIN result.hosts}

\* The candidate addresses of the ranges derived from the enumerated interfaces.
Candidates ==
    UNION {{NetworkIter(get_network_range(interfaces[k])[1])[n] : n \in 1..RangeLen} :
           k \in {k \in DOMAIN interfaces :
                    /\ interfaces[k].addr # <<>>
                    /\ get_network_range(interfaces[k]) # None}}

\* C1: the number of addresses whose liveness probe or enrichment is in
\* progress at the same time never exceeds MAX_CONCURRENT_SCANS.
C1_ConcurrencyCap == Cardinality(Holding) <= MAX_CONCURRENT_SCANS

\* The gate is full while another task waits for a permit.
C1_Witness ==
    /\ Cardinality(Holding) = MAX_CONCURRENT_SCANS
    /\ Waiting # {}
    /\ \E u \in Holding : tasks[u].pc \in {"resolve", "arp", "join"}

\* C2: the returned ScanResult never contains two records with the same address.
C2_NoDuplicateAddress ==
    Returned =>
        \A m, n \in DOMAIN result.hosts :
            m # n => result.hosts[m].ip # result.hosts[n].ip

\* An address was recorded from the ranges of two interfaces and is returned once.
C2_Witness ==
    /\ Returned
    /\ \E m, n \in DOMAIN hosts : m # n /\ hosts[m].ip = hosts[n].ip
    /\ Len(result.hosts) < Len(hosts)

\* C3: an address has a record in the ScanResult if and only if it is a
\* candidate of some derived range and is_host_alive returned true for it in
\* at least one pass.
C3_RecordedIffAlive ==
    Returned =>
        /\ ResultIps = {to_string(ip) : ip \in alive}
        /\ alive \subseteq Candidates

\* The scan returned with an address that was dead in every pass, and with one
\* that was alive in one pass and dead in another.
C3_Witness ==
    /\ Returned
    /\ dead \ alive # {}
    /\ dead \cap alive # {}

\* C4: scan_network returns an error if and only if the interface enumeration
\* failed.
C4_ErrorIffEnumerationFails ==
    pc = "returned" => (~result.ok <=> shown = "error")

\* The scan returned a result although probes timed out, ping failed, the
\* lookup failed and arp exited unsuccessfully.
C4_Witness ==
    /\ Returned
    /\ dead # {}
    /\ alive # {}
    /\ env.lookup = LookupFails
    /\ env.arp = ArpExitFailure

\* C5: the returned ScanResult is sorted ascending by address compared as
\* strings, so "192.168.1.10" precedes "192.168.1.2".
C5_SortedLexicographically ==
    Returned =>
        /\ \A k \in 1..(Len(result.hosts) - 1) :
             ~StrLess(result.hosts[k + 1].ip, result.hosts[k].ip)
        /\ \A m, n \in DOMAIN result.hosts :
             /\ result.hosts[m].ip = to_string(<<192, 168, 1, 10>>)
             /\ result.hosts[n].ip = to_string(<<192, 168, 1, 2>>)
             => m < n

\* Both 192.168.1.2 and 192.168.1.10 are in the result.
C5_Witness ==
    /\ Returned
    /\ to_string(<<192, 168, 1, 10>>) \in ResultIps
    /\ to_string(<<192, 168, 1, 2>>) \in ResultIps
\* The records scan_host has produced so far.
Records ==
    {tasks[u].out[1] : u \in {u \in DOMAIN tasks : tasks[u].out # None}}
    \cup {hosts[k] : k \in DOMAIN hosts}
    \cup {result.hosts[k] : k \in DOMAIN result.hosts}

\* C6: scan_ports reports a port as open if and only if a TCP connection to it
\* is established within the 200 ms timeout.
C6_OpenIffEstablished ==
    \A u \in DOMAIN tasks :
        tasks[u].out # None =>
            \A k \in DOMAIN common_ports :
                Contains(tasks[u].out[1].open_ports, common_ports[k]) <=>
                    LET attempt == Connect(tasks[u].kind, common_ports[k])
                    IN attempt.res = "established" /\ attempt.ms < 200

\* C7: the fast strategy of is_host_alive returns true only on an attempt that
\* ended established or refused; attempts that end with an unreachable error
\* never make it return true.
C7_UnreachableIsNotAlive ==
    \A u \in DOMAIN tasks :
        tasks[u].via = "fast" =>
            \E k \in DOMAIN alive_ports :
                LET attempt == Connect(tasks[u].kind, alive_ports[k])
                IN attempt.res \in {"established", "refused"} /\ attempt.ms < 100

\* C8: smb_shares of every record is empty when open_ports contains neither
\* 445 nor 139, and otherwise the static seven-name list.
C8_SmbSharesRule ==
    \A host \in Records :
        host.smb_shares =
            IF \E k \in DOMAIN host.open_ports : host.open_ports[k] \in {445, 139}
            THEN <<"C$", "ADMIN$", "IPC$", "shared", "public", "media", "downloads">>
            ELSE <<>>

\* Two addresses with port 139 open and 445 closed carry the seven names.
C8_Witness ==
    \E a, b \in Records :
        /\ a.ip # b.ip
        /\ a.open_ports = <<139>>
        /\ b.open_ports = <<139>>
        /\ Len(a.smb_shares) = 7
        /\ a.smb_shares = b.smb_shares

\* C9: when scan_network has returned, every per-address task it spawned has
\* finished: none waits for a permit, none is probing or enriching.
C9_ReturnsAfterAllUnits ==
    pc = "returned" =>
        /\ \A u \in DOMAIN tasks : tasks[u].pc = "done"
        /\ Holding = {}
        /\ Waiting = {}
        /\ permits = MAX_CONCURRENT_SCANS

\* The scan returned after a range in which hosts were enriched.
C9_Witness ==
    /\ Returned
    /\ Len(tasks) = RangeLen
    /\ \E u \in DOMAIN tasks : tasks[u].out # None
    /\ \E u \in DOMAIN tasks : tasks[u].out = None

\* C10: every unit eventually finishes and scan_network eventually returns,
\* even when an external tool or peer never answers.
C10_EventuallyReturns == <>(pc = "returned")

\* The record the probe outcomes of an address determine: its hostname, MAC
\* address and open ports are those of the host of the network of this scan.
RecordOf(ip) ==
    LET open == scan_ports(env.kind, common_ports)
    IN [ip |-> to_string(ip),
        hostname |-> resolve_hostname(env.lookup),
        mac_address |-> get_mac_address(env.arp),
        vendor |-> None,
        open_ports |-> open,
        smb_shares |-> IF \E k \in DOMAIN open : open[k] \in {139, 445}
                       THEN common_shares ELSE <<>>]

\* The records of a set with one record per address, ascending by address.
RECURSIVE AscendingByIp(_)
AscendingByIp(records) ==
    IF records = {} THEN <<>>
    ELSE LET least == CHOOSE h \in records :
                          \A g \in records : ~StrLess(g.ip, h.ip)
         IN <<least>> \o AscendingByIp(records \ {least})

\* C15: when every address has the same probe outcomes whenever it is probed,
\* the ScanResult returned is determined by these outcomes alone, whatever
\* the order in which the tasks ran and completed: it lists the records of
\* the alive addresses, once each, ascending by address.
C15_ResultDeterminedByOutcomes ==
    (Returned /\ alive \cap dead = {}) =>
        result.hosts = AscendingByIp({RecordOf(ip) : ip \in alive})

\* Two interfaces of the same /24 were scanned, with the same outcomes in both
\* passes: two alive addresses and one that is not.
C15_Witness ==
    /\ Returned
    /\ alive \cap dead = {}
    /\ dead # {}
    /\ Cardinality(alive) = 2
    /\ Len(hosts) = 4
    /\ Len(result.hosts) = 2

\* The hostname lookup of this scan fails, the MAC lookup of this scan fails.
HostnameLookupFails == ~env.lookup.ok \/ env.lookup.names = <<>>
MacLookupFails ==
    \/ ~env.arp.started
    \/ ~env.arp.success
    \/ ~env.arp.utf8
    \/ \A k \in DOMAIN env.arp.lines :
          \A j \in DOMAIN env.arp.lines[k].parts :
              ~(env.arp.lines[k].parts[j].colon /\ env.arp.lines[k].parts[j].len = 17)

\* C21: for an address that passed the liveness probe scan_host produces a
\* record also when the hostname lookup fails and when the MAC lookup fails:
\* the task ends with a record whose corresponding field is absent and whose
\* vendor is absent, never with an error.
C21_RecordDespiteFailedLookups ==
    \A u \in DOMAIN tasks :
        (tasks[u].pc = "done" /\ tasks[u].via # "none") =>
            /\ tasks[u].out # None
            /\ tasks[u].out[1].vendor = None
            /\ HostnameLookupFails => tasks[u].out[1].hostname = None
            /\ MacLookupFails => tasks[u].out[1].mac_address = None
            /\ tasks[u].out[1].ip = to_string(tasks[u].ip)

\* A host was recorded although the resolver failed and arp printed bytes
\* that are not UTF-8; its record has neither hostname nor MAC address.
C21_Witness ==
    /\ HostnameLookupFails
    /\ MacLookupFails
    /\ \E u \in DOMAIN tasks :
          /\ tasks[u].pc = "done"
          /\ tasks[u].via = "fast"
          /\ tasks[u].out # None
          /\ tasks[u].out[1].hostname = None
          /\ tasks[u].out[1].mac_address = None
          /\ tasks[u].out[1].open_ports # <<>>

(***************************************************************************)
(* Properties of is_host_alive.                                            *)
(***************************************************************************)
\* The connect attempt of the call to the port ended before its deadline.
AttemptIsOk(port) == Connect(liveness.kind, port).ms < 100
PingRan == liveness.output # None

C12_NothingListeningIsDead ==
    (/\ liveness.pc = "returned"
     /\ \A k \in DOMAIN alive_ports :
           Connect(liveness.kind, alive_ports[k]).res # "established"
     /\ liveness.ping # "success")
    => liveness.ret = Some(FALSE)

\* C12, amended: for an address from which none of the six connect attempts
\* gets any answer within its 100 ms timeout, neither a connection nor a
\* refusal nor another error, and for which ping fails or cannot be run,
\* is_host_alive returns false, after having tried all six ports and ping.
C12_NoAnswerIsDead ==
    (/\ liveness.pc = "returned"
     /\ \A k \in DOMAIN alive_ports :
           Connect(liveness.kind, alive_ports[k]).ms >= 100
     /\ liveness.ping # "success")
    => /\ liveness.ret = Some(FALSE)
       /\ Len(liveness.attempted) = 6
       /\ PingRan

\* A host whose only listener answers after the deadline, where ping cannot
\* be started, was declared not alive.
C12_Witness ==
    /\ liveness.pc = "returned"
    /\ liveness.kind = "nbt"
    /\ liveness.ping = "nostart"
    /\ liveness.output = Some("nostart")
    /\ liveness.ret = Some(FALSE)

(***************************************************************************)
(* Properties of the range derivation.                                     *)
(***************************************************************************)
IfAddrs == derivation.interface.addr
Derived == derivation.pc \in {"skipped", "spawn", "spawned"}

\* C13: get_network_range returns no range exactly when the interface has no
\* IPv4 address, and otherwise the one /24 range of the first IPv4 address in
\* the order of the interface's addresses.
C13_RangeOfFirstIPv4 ==
    Derived =>
        /\ derivation.network = None <=> \A k \in DOMAIN IfAddrs : ~IfAddrs[k].v4
        /\ derivation.network # None =>
              /\ Len(derivation.network) = 1
              /\ \E k \in DOMAIN IfAddrs :
                    /\ IfAddrs[k].v4
                    /\ \A j \in 1..(k - 1) : ~IfAddrs[j].v4
                    /\ derivation.network[1] = IfAddrs[k].octets

\* An IPv6 address precedes the IPv4 address taken and another IPv4 address
\* follows it.
C13_Witness ==
    /\ Derived
    /\ IfAddrs = <<V6, V4(10, 0, 0, 0), V4(192, 168, 1, 77)>>
    /\ derivation.network = Some(<<10, 0, 0, 0>>)

\* C14: for an interface address a.b.c.d the tasks spawned are exactly one
\* for each of the 256 distinct addresses a.b.c.0 ... a.b.c.255, the network,
\* broadcast and own address included.
C14_OneTaskPerAddressOfRange ==
    derivation.pc = "spawned" =>
        LET own == derivation.network[1]
            spawned == derivation.tasks
        IN /\ Len(spawned) = 256
           /\ \A m, n \in DOMAIN spawned : m # n => spawned[m].ip # spawned[n].ip
           /\ {spawned[k].ip : k \in DOMAIN spawned} =
                 {<<own[1], own[2], own[3], x>> : x \in 0..255}
           /\ \E k \in DOMAIN spawned : spawned[k].ip = own

\* The range of 192.168.1.77 was spawned, from 192.168.1.0 to 192.168.1.255.
C14_Witness ==
    /\ derivation.pc = "spawned"
    /\ derivation.network = Some(<<192, 168, 1, 77>>)
    /\ derivation.tasks[1].ip = <<192, 168, 1, 0>>
    /\ derivation.tasks[78].ip = <<192, 168, 1, 77>>
    /\ derivation.tasks[256].ip = <<192, 168, 1, 255>>
(***************************************************************************)
(* Properties of scan_ports inside a task.                                 *)
(***************************************************************************)
PermitsTaken == MAX_CONCURRENT_SCANS - unit.permits
\* The TCP connect attempts of the task that are in flight: the one attempt
\* is_host_alive makes at a time, then the running probes of scan_ports.
InFlight == IF unit.pc = "liveness" THEN 1 ELSE Cardinality(unit.running)
PositionOf(port) == CHOOSE k \in 1..17 :
    <<21, 22, 23, 25, 53, 80, 110, 135, 139, 143, 443, 445, 993, 995, 3389,
      5985, 5986>>[k] = port

\* C16: scan_ports has at most 17 connect attempts in flight for its address
\* and only while the task holds a permit, so that the connect attempts in
\* flight never exceed 17 per permit taken, 32 x 17 in all.
C16_FanOutUnderPermit ==
    /\ Cardinality(unit.running) <= 17
    /\ unit.running # {} => PermitsTaken = 1
    /\ PermitsTaken \in 0..MAX_CONCURRENT_SCANS
    /\ InFlight <= 17 * PermitsTaken

\* All 17 probes of the task are in flight, under its permit.
C16_Witness ==
    /\ Cardinality(unit.running) = 17
    /\ PermitsTaken = 1
    /\ unit.joined = 0

\* C17: the order of the ports scan_ports returns follows the order in which
\* the probes completed, not the order of the port list.
C17_CompletionOrder ==
    unit.out # None => unit.out[1] = unit.completed

\* C17, amended: the order of the ports scan_ports returns follows the order
\* of the port list, not the order in which the probes completed: the same
\* ports as completed with a connection result, each before every port that
\* is later in the list.
C17_ListOrderNotCompletionOrder ==
    unit.out # None =>
        LET ports == unit.out[1]
        IN /\ {ports[k] : k \in DOMAIN ports} =
                {unit.completed[k] : k \in DOMAIN unit.completed}
           /\ Len(ports) = Len(unit.completed)
           /\ \A m, n \in DOMAIN ports :
                m < n => PositionOf(ports[m]) < PositionOf(ports[n])

\* The probe of 445 completed before the probe of 139, and 139 is returned
\* before 445.
C17_Witness ==
    /\ unit.out = Some(<<139, 445>>)
    /\ unit.completed = <<445, 139>>

\* C18: open_ports holds every port at most once, only ports of the 17-port
\* list, in the order of that list, and when scan_ports returns it holds
\* every port whose probe returned Some.
C18_OpenPortsInListOrder ==
    LET list == <<21, 22, 23, 25, 53, 80, 110, 135, 139, 143, 443, 445, 993,
                  995, 3389, 5985, 5986>>
        keep(port) == Connect(unit.kind, port).ms < 200
        ports == unit.open_ports
    IN /\ \A m, n \in DOMAIN ports : m # n => ports[m] # ports[n]
       /\ \A m \in DOMAIN ports : \E k \in DOMAIN list : ports[m] = list[k]
       /\ unit.pc \in {"scan", "done"} =>
            ports = SelectSeq(SubSeq(list, 1, unit.joined), keep)
       /\ unit.out # None =>
            /\ unit.out[1] = SelectSeq(list, keep)
            /\ unit.out[1] = scan_ports(unit.kind, common_ports)

\* scan_ports returned for the host whose listener on 139 answers after
\* 150 ms: all 17 probes were joined and 139 is the one open port.
C18_Witness ==
    /\ unit.pc = "done"
    /\ unit.kind = "nbt"
    /\ unit.joined = 17
    /\ unit.running = {}
    /\ unit.out = Some(<<139>>)
(***************************************************************************)
(* Properties of get_mac_address.                                          *)
(***************************************************************************)
\* The fields of the lines of the output that contain the address.
AddressLines ==
    {line \in {StrLines(mac_lookup.run.stdout)[k] :
                 k \in DOMAIN StrLines(mac_lookup.run.stdout)} :
        StrContains(line, to_string(mac_lookup.ip))}
\* 17 characters containing a colon.
MacShaped(token) == Len(token) = 17 /\ \E i \in DOMAIN token : token[i] = 58
\* The MAC-shaped fields of a line from the third field on.
MacFieldsOf(line) ==
    LET parts == SplitWhitespace(line)
    IN {parts[k] : k \in {k \in DOMAIN parts : k >= 3 /\ MacShaped(parts[k])}}

\* C19: given output with a line that contains the address, get_mac_address
\* returns a MAC-shaped token that is the third field of such a line or a
\* later one; it finds the MAC also when it is the fourth or a later field.
C19_MacFromThirdFieldOnward ==
    (/\ mac_lookup.pc = "returned"
     /\ mac_lookup.run.started /\ mac_lookup.run.success /\ mac_lookup.run.utf8)
    => /\ mac_lookup.ret # None =>
            \E line \in AddressLines : mac_lookup.ret[1] \in MacFieldsOf(line)
       /\ (\E line \in AddressLines : MacFieldsOf(line) # {}) =>
            mac_lookup.ret # None

\* XX:XX:XX:XX:XX:XX: six groups of two characters separated by colons.
MacForm(token) ==
    /\ Len(token) = 17
    /\ \A i \in 1..17 : (token[i] = 58) <=> (i % 3 = 0)

\* C20: whenever get_mac_address returns a MAC address, it has the form
\* XX:XX:XX:XX:XX:XX, whatever text arp printed.
C20_MacAddressForm ==
    mac_lookup.pc = "returned" /\ mac_lookup.ret # None => MacForm(mac_lookup.ret[1])
(***************************************************************************)
(* Properties of the desktop app's configuration commands.                 *)
(***************************************************************************)
\* What a write command makes of a configuration when it runs alone.
ApplyWrite(cfg, cmd) ==
    CASE cmd.name = "update_config" -> cmd.arg
      [] cmd.name = "set_server_url" -> [cfg EXCEPT !.server_url = <<cmd.arg>>]
      [] cmd.name = "set_auth_token" -> [cfg EXCEPT !.auth_token = <<cmd.arg>>]
      [] cmd.name = "clear_auth_token" -> [cfg EXCEPT !.auth_token = <<>>]
\* The configuration after the first n writes that completed, run one after
\* another from the default configuration.
RECURSIVE AfterWrites(_)
AfterWrites(n) ==
    IF n = 0 THEN [server_url |-> <<>>, auth_token |-> <<>>, theme |-> "dark",
                   auto_start |-> FALSE]
    ELSE ApplyWrite(AfterWrites(n - 1), desktop.commands[desktop.order[n]].cmd)
InBody(p) == desktop.commands[p].pc \in {"body", "return"}

\* C23: every read and write of the shared AppConfig happens under its mutex:
\* at most one command is in its body, the one that holds the mutex; whenever
\* no write is in progress the state is that of the completed writes applied
\* one after another in the order in which they completed; and get_config
\* returns the state after some number of these writes, not fewer than had
\* completed when it was invoked and not more than had when it returned.
C23_ConfigCommandsLinearizable ==
    /\ \A p, q \in Commands : InBody(p) /\ InBody(q) => p = q
    /\ \A p \in Commands : InBody(p) => desktop.mutex = p
    /\ (\A p \in Commands : InBody(p) => desktop.commands[p].cmd.name = "get_config")
          => desktop.config = AfterWrites(Len(desktop.order))
    /\ \A p \in Commands :
          (desktop.commands[p].pc = "done"
           /\ desktop.commands[p].cmd.name = "get_config") =>
              \E n \in desktop.commands[p].began..desktop.commands[p].ended :
                  desktop.commands[p].ret = AfterWrites(n)

\* update_config and set_auth_token have completed, in this order, and a
\* get_config invoked after the first write returned the state between the two.
C23_Witness ==
    /\ Len(desktop.order) = 2
    /\ desktop.commands[desktop.order[1]].cmd.name = "update_config"
    /\ desktop.commands[desktop.order[2]].cmd.name = "set_auth_token"
    /\ \E p \in Commands :
          /\ desktop.commands[p].pc = "done"
          /\ desktop.commands[p].cmd.name = "get_config"
          /\ desktop.commands[p].began = 1
          /\ desktop.commands[p].ended = 1
          /\ desktop.commands[p].ret.auth_token = <<"t2">>
    /\ desktop.config.auth_token = <<"t1">>
    /\ desktop.config.theme = "light"
(***************************************************************************)
(* Properties of test_local_connection.                                    *)
(***************************************************************************)
\* What the filesystem holds at the path: an entry that resolves to
\* something, a directory, a directory that can be listed.
Exists(fs, name) == fs.entries[name] \notin {"missing", "link_missing"}
IsDirectory(fs, name) == fs.entries[name] \in Directories
CanBeListed(fs, name) == ReadDir(fs, name).ok

\* C25: test_local_connection returns Ok(true) exactly when the path exists,
\* is a directory and can be listed; otherwise it returns the error
\* 'Path does not exist' when the path does not exist, else 'Path is not a
\* directory' when it is not one, else 'Cannot read directory'; it never
\* returns Ok(false) and leaves the filesystem as it was.
C25_LocalConnectionVerdict ==
    /\ local.pc # "idle" => local.fs = local.initial
    /\ local.pc = "done" =>
         LET fs == local.fs
             name == local.base_path
         IN local.result =
              Some(IF ~Exists(fs, name) THEN ErrString("Path does not exist")
                   ELSE IF ~IsDirectory(fs, name)
                        THEN ErrString("Path is not a directory")
                   ELSE IF ~CanBeListed(fs, name)
                        THEN ErrString("Cannot read directory")
                   ELSE OkBool(TRUE))
(***************************************************************************)
(* Properties of smb::scan_shares.                                         *)
(***************************************************************************)
Unreachable == ~smb_api.response[1].sent
NonSuccess == smb_api.response[1].sent /\ ~IsSuccess(smb_api.response[1].status)

\* C24: when the catalog API is unreachable or answers with a non-success
\* status, scan_shares returns Ok with the nine fallback shares, each with
\* the requested host, the path \\host\name, writable = false and a
\* description; it returns an error only when a success response cannot be
\* parsed.
C24_FallbackInsteadOfError ==
    smb_api.pc = "done" =>
        LET res == smb_api.result[1]
        IN /\ (Unreachable \/ NonSuccess) =>
                /\ res.ok
                /\ Len(res.shares) = 9
                /\ \A k \in 1..9 :
                      /\ res.shares[k].host = smb_api.host
                      /\ res.shares[k].path =
                           <<"\\", "\\", smb_api.host, "\\", res.shares[k].share_name>>
                      /\ res.shares[k].writable = FALSE
                      /\ res.shares[k].description # <<>>
                /\ {res.shares[k].share_name : k \in 1..9} =
                      {"shared", "public", "media", "downloads", "documents",
                       "music", "videos", "pictures", "backup"}
           /\ ~res.ok <=> (/\ smb_api.response[1].sent
                           /\ IsSuccess(smb_api.response[1].status)
                           /\ ~smb_api.response[1].body.parses)

\* The API answered 503 and the fallback list was returned for host nas.
C24_Witness ==
    /\ smb_api.pc = "done"
    /\ smb_api.host = "nas"
    /\ smb_api.response[1].sent
    /\ smb_api.response[1].status = 503
    /\ smb_api.result[1].ok
    /\ Len(smb_api.result[1].shares) = 9
    /\ smb_api.result[1].shares[3].path = <<"\\", "\\", "nas", "\\", "media">>
(***************************************************************************)
(* Properties of the ranges and of the gate.                               *)
(***************************************************************************)
\* The addresses of the range of the interface scan_network is at.
CurrentRange == NetworkIter(get_network_range(interfaces[idx])[1])

\* C26: the ranges are scanned strictly one after another: between two ranges
\* and after the last every task has finished, and while a range is scanned
\* the tasks are those of this range alone, one per address of the range of
\* the current interface; no task of another range is in flight with them.
C26_RangesOneAfterAnother ==
    /\ pc # "range" => \A u \in DOMAIN tasks : tasks[u].pc = "done"
    /\ pc = "range" =>
         /\ \A u \in DOMAIN tasks :
               \E n \in DOMAIN CurrentRange : tasks[u].ip = CurrentRange[n]
         /\ \A u, v \in DOMAIN tasks : tasks[u].ip = tasks[v].ip => u = v

\* The range of the third interface is being scanned, after the range of the
\* first has produced records: its tasks are in flight, none of the first is.
C26_Witness ==
    /\ pc = "range"
    /\ idx = 3
    /\ hosts # <<>>
    /\ Holding # {}
    /\ \A u \in DOMAIN tasks : tasks[u].ip[1] = 10
    /\ \E k \in DOMAIN hosts : hosts[k].ip = to_string(<<192, 168, 1, 2>>)

\* C27: while scan_network_range runs, the available permits and the units
\* holding a permit add up to MAX_CONCURRENT_SCANS, and when it has joined
\* all its tasks and returns, all the permits are available again, whether
\* a unit found its host dead or alive.
C27_PermitsConserved ==
    /\ permits + Cardinality(Holding) = MAX_CONCURRENT_SCANS
    /\ (pc # "range" \/ joined = Len(tasks)) => permits = MAX_CONCURRENT_SCANS

\* A range has returned with all permits available after one unit found its
\* host dead and another enriched a live host.
C27_Witness ==
    /\ pc = "loop"
    /\ idx = 2
    /\ permits = MAX_CONCURRENT_SCANS
    /\ \E u \in DOMAIN tasks : tasks[u].kind # "unknown" /\ tasks[u].out = None
    /\ \E u \in DOMAIN tasks : tasks[u].out # None
\* C28: every task spawned by scan_network_range eventually acquires a permit
\* and runs its liveness probe, provided every unit that holds a permit
\* eventually finishes (the fairness of GateSpec).
C28_EveryTaskGetsPermit ==
    \A u \in 1..RangeLen :
        (pc = "range" /\ tasks[u].pc = "waiting")
            ~> (pc = "range" /\ tasks[u].kind # "unknown")

\* The last task of the range has been probed and holds a permit while the
\* gate is full and an earlier task has finished.
C28_Witness ==
    /\ pc = "range"
    /\ Cardinality(Holding) = MAX_CONCURRENT_SCANS
    /\ Waiting = {}
    /\ RangeLen \in Holding
    /\ tasks[RangeLen].kind # "unknown"
    /\ \E u \in DOMAIN tasks : tasks[u].pc = "done"
(***************************************************************************)
(* Properties of the merge at the end of scan_network.                     *)
(***************************************************************************)
\* The passes that recorded the address, and the record a pass holds for it.
PassesWith(ip) ==
    {i \in DOMAIN merge.passes :
        \E k \in DOMAIN merge.passes[i] : merge.passes[i][k].ip = ip}
RecordIn(i, ip) ==
    CHOOSE h \in {merge.passes[i][k] : k \in DOMAIN merge.passes[i]} : h.ip = ip
FirstPassWith(ip) == CHOOSE i \in PassesWith(ip) : \A j \in PassesWith(ip) : i <= j

\* C29: when an address was recorded from the ranges of two or more
\* interfaces, the one record of it that scan_network returns is the record
\* produced for the interface enumerated first among them; the records of
\* the later interfaces leave no trace.
C29_FirstInterfaceRecordSurvives ==
    merge.pc = "returned" =>
        \A n \in DOMAIN MergedAddresses :
            LET ip == to_string(MergedAddresses[n])
                kept == {k \in DOMAIN merge.hosts : merge.hosts[k].ip = ip}
            IN Cardinality(PassesWith(ip)) >= 2 =>
                 /\ Cardinality(kept) = 1
                 /\ \A k \in kept : merge.hosts[k] = RecordIn(FirstPassWith(ip), ip)

\* 192.168.1.2 was recorded with a name and no open port in the first pass
\* and without a name and with port 139 in the second; the first is returned.
C29_Witness ==
    /\ merge.pc = "returned"
    /\ Len(merge.passes) >= 2
    /\ \E k \in DOMAIN merge.passes[1] :
          /\ merge.passes[1][k].ip = to_string(<<192, 168, 1, 2>>)
          /\ merge.passes[1][k].hostname = <<"nas.lan">>
          /\ merge.passes[1][k].open_ports = <<>>
    /\ \E k \in DOMAIN merge.passes[2] :
          /\ merge.passes[2][k].ip = to_string(<<192, 168, 1, 2>>)
          /\ merge.passes[2][k].hostname = <<>>
          /\ merge.passes[2][k].open_ports = <<139>>
    /\ \E k \in DOMAIN merge.hosts :
          /\ merge.hosts[k].ip = to_string(<<192, 168, 1, 2>>)
          /\ merge.hosts[k].hostname = <<"nas.lan">>
          /\ merge.hosts[k].open_ports = <<>>
(***************************************************************************)
(* Properties of test_ftp_connection.                                      *)
(***************************************************************************)
\* The server has sent a reply with this code to the command (or as banner).
Replied(what, code) ==
    \E k \in DOMAIN ftp.replied : ftp.replied[k] = <<what, code>>
IsPrefix(s, t) == Len(s) <= Len(t) /\ s = SubSeq(t, 1, Len(s))

\* C30: test_ftp_connection returns Ok(true) if and only if the banner
\* starts with 220, the reply to PASS starts with 230 and, when a path is
\* given, the reply to CWD starts with 250, whatever the reply to USER; the
\* commands are sent in the order USER, PASS, [CWD], QUIT, none after the
\* first failing step, QUIT only on success; Ok(false) is never returned.
C30_FtpVerdict ==
    ftp.pc = "done" =>
        /\ ftp.result = Some(OkBool(TRUE)) <=>
              /\ Replied("banner", "220")
              /\ Replied("PASS", "230")
              /\ ftp.path # None => Replied("CWD", "250")
        /\ IsPrefix(ftp.sent, IF ftp.path = None THEN <<"USER", "PASS", "QUIT">>
                              ELSE <<"USER", "PASS", "CWD", "QUIT">>)
        /\ (\E k \in DOMAIN ftp.sent : ftp.sent[k] = "QUIT") => ftp.result[1].ok
        /\ ftp.result # Some(OkBool(FALSE))
(***************************************************************************)
(* Properties of test_webdav_connection.                                   *)
(***************************************************************************)
\* C31: for an http:// URL, test_webdav_connection returns Ok(true) only
\* when the status of the response is 207 or 200, and returns the error
\* 'WebDAV authentication failed' whenever the status is 401 or 403,
\* whatever the rest of the response contains.
C31_WebdavVerdictByStatus ==
    (webdav.pc = "done" /\ webdav.scheme = "http" /\ webdav.response # None) =>
        /\ webdav.result = Some(OkBool(TRUE)) => webdav.status \in {200, 207}
        /\ webdav.status \in {401, 403} =>
              webdav.result = Some(ErrString("WebDAV authentication failed"))
(***************************************************************************)
(* Properties of test_nfs_connection.                                      *)
(***************************************************************************)
\* C33: test_nfs_connection leaves the filesystem unchanged whenever it
\* fails before or at the connect to port 2049; the mount-point directory is
\* created only after the connection has succeeded, and only when the mount
\* point did not exist.
C33_MountPointOnlyAfterConnect ==
    /\ nfs.pc # "idle" /\ ~nfs.connected => nfs.fs = nfs.initial
    /\ (/\ nfs.pc = "done"
        /\ nfs.result[1].error \in {"Invalid address",
                                    "NFS host not reachable on port 2049"})
          => nfs.fs = nfs.initial
    /\ nfs.pc # "idle" /\ nfs.fs # nfs.initial =>
          /\ nfs.connected
          /\ nfs.initial[MountDepth] = "missing"
          /\ nfs.fs[MountDepth] = "dir"

\* The connection was made and the mount point, missing with its parent,
\* has been created.
C33_Witness ==
    /\ nfs.pc = "done"
    /\ nfs.connected
    /\ nfs.result = Some(OkBool(TRUE))
    /\ nfs.initial[MountDepth] = "missing"
    /\ nfs.initial[MountDepth - 1] = "missing"
    /\ nfs.fs[MountDepth] = "dir"
    /\ nfs.fs[MountDepth - 1] = "dir"
(***************************************************************************)
(* Properties of the module functions and the commands.                    *)
(***************************************************************************)
\* C32: ftp::test_connection, webdav::test_connection, nfs::test_connection
\* and local::test_connection are observationally equivalent to the commands
\* test_ftp_connection, test_webdav_connection, test_nfs_connection and
\* test_local_connection: for the same inputs and the same replies of the
\* peer they make the same I/O steps in the same order and end with the same
\* outcome.
C32_ModuleFunctionsEquivalent ==
    (modules.pc = "called" /\ modules.function # None /\ modules.command # None) =>
        /\ modules.function[1].steps = modules.command[1].steps
        /\ modules.function[1].outcome = modules.command[1].outcome
        /\ modules.function = modules.command

\* Both have run against an FTP server that accepts the user but whose reply
\* to PASS is not 230: four I/O steps after the banner, the same error.
C32_Witness ==
    /\ modules.pc = "called"
    /\ modules.protocol = "ftp"
    /\ modules.function # None
    /\ modules.command # None
    /\ Len(modules.command[1].steps) = 7
    /\ modules.command[1].outcome = ErrString("FTP authentication failed")
    /\ modules.function[1].outcome = ErrString("FTP authentication failed")
(***************************************************************************)
(* Properties of the setters of the desktop app's configuration.           *)
(***************************************************************************)
\* The command takes a step of its body in this transition.
BodyStep(p) ==
    /\ desktop.commands[p].pc = "body"
    /\ desktop'.commands[p].step # desktop.commands[p].step
\* The fields of the configuration other than this one stay as they are.
OnlyChanges(field) ==
    \A k \in DOMAIN ConfigFields :
        ConfigFields[k] # field =>
            desktop'.config[ConfigFields[k]] = desktop.config[ConfigFields[k]]
\* The completed writes end with set_auth_token followed by clear_auth_token.
TokenSetThenCleared ==
    /\ Len(desktop.order) >= 2
    /\ desktop.commands[desktop.order[Len(desktop.order) - 1]].cmd.name = "set_auth_token"
    /\ desktop.commands[desktop.order[Len(desktop.order)]].cmd.name = "clear_auth_token"

\* What the step of the body of command p may change.
SetterFrame(p) ==
    LET name == desktop.commands[p].cmd.name
        arg == desktop.commands[p].cmd.arg
    IN /\ name = "get_config" => desktop'.config = desktop.config
       /\ name = "set_server_url" =>
             (OnlyChanges("server_url") /\ desktop'.config.server_url = Some(arg))
       /\ name = "set_auth_token" =>
             (OnlyChanges("auth_token") /\ desktop'.config.auth_token = Some(arg))
       /\ name = "clear_auth_token" =>
             (OnlyChanges("auth_token") /\ desktop'.config.auth_token = None)
\* Nothing but a step of the body of a command changes the configuration.
ConfigChangedByBody ==
    desktop'.config # desktop.config => \E p \in Commands : BodyStep(p)
\* No write is under way.
NoWriteInBody == \A p \in Commands : InBody(p) => ~IsWrite(desktop.commands[p].cmd)

\* C34: set_server_url changes only server_url, set_auth_token and
\* clear_auth_token change only auth_token, and get_config changes nothing
\* of the configuration; nothing but a step of a command's body changes the
\* configuration; and after set_auth_token followed by clear_auth_token, with
\* no other write under way, the token is absent.
C34_SettersChangeOnlyTheirField ==
    /\ [][(\A p \in Commands : BodyStep(p) => SetterFrame(p)) /\ ConfigChangedByBody]_vars
    /\ []((TokenSetThenCleared /\ NoWriteInBody) => desktop.config.auth_token = None)

\* set_server_url, set_auth_token and clear_auth_token have completed in this
\* order: the URL is set, the token is absent, the other fields are those of
\* the default configuration.
C34_Witness ==
    /\ Len(desktop.order) = 3
    /\ desktop.commands[desktop.order[1]].cmd.name = "set_server_url"
    /\ TokenSetThenCleared
    /\ desktop.config = AppConfig(Some("http://a"), None, "dark", FALSE)
(***************************************************************************)
(* Properties of make_http_request.                                        *)
(***************************************************************************)
\* Case folding of a character (Unicode CaseFolding, full): A-Z to a-z, the
\* long s to s, the sharp s to ss, the ligature st to st.
CharFold(c) ==
    IF c \in 65..90 THEN <<c + 32>>
    ELSE IF c = 383 THEN <<115>>
    ELSE IF c = 223 THEN <<115, 115>>
    ELSE IF c = 64262 THEN <<115, 116>>
    ELSE <<c>>
RECURSIVE Fold(_)
Fold(s) == IF s = <<>> THEN <<>> ELSE CharFold(Head(s)) \o Fold(Tail(s))
\* The method is one of GET, POST, PUT, DELETE, PATCH when case is ignored.
IsSupportedMethod(method) == \E arm \in MatchArms : Fold(method) = Fold(arm)

\* C35: make_http_request accepts exactly the methods GET, POST, PUT, DELETE
\* and PATCH, compared without regard to case; for any other method it
\* returns the error "Unsupported HTTP method" and sends no request.
C35_ExactlyFiveMethods ==
    /\ http.pc = "send" => IsSupportedMethod(http.method) /\ http.request # None
    /\ http.pc = "done" =>
          IF IsSupportedMethod(http.method)
          THEN /\ http.sent = 1
               /\ http.request[1].method \in MatchArms
               /\ http.result # Some(ErrString("Unsupported HTTP method"))
          ELSE /\ http.sent = 0
               /\ http.request = None
               /\ http.result = Some(ErrString("Unsupported HTTP method"))

\* "pAtch" was accepted as PATCH and its request sent.
C35_Witness ==
    /\ http.pc = "done"
    /\ http.method = <<112, 65, 116, 99, 104>>
    /\ http.request # None
    /\ http.request[1].method = MethodPatch
    /\ http.sent = 1
    /\ http.result = Some(OkText("response"))
====
